---- MODULE Spec2Model ----
(***************************************************************************)
(* metallb-converter: conversion of legacy AddressPool resources into      *)
(* IPAddressPool / L2Advertisement / BGPAdvertisement resources, and the   *)
(* online migration loop that replaces them one by one in a live store.    *)
(*                                                                         *)
(* Conventions: a Go pointer or optional value is a sequence of length 0   *)
(* (nil) or 1 (set); a Go slice is a sequence; Go's zero-based index i is  *)
(* the one-based position i + 1.                                           *)
(***************************************************************************)
EXTENDS Integers, Sequences, FiniteSets, TLC

VARIABLES
    store,           \* live store: resource kind -> set of objects
    backupDir,       \* backup directory: set of files [name, content]
    inDir,           \* input directory: <<>> when the flag is "", else <<files>>
    outDir,          \* output directory: <<>> when the flag is "", else <<files>>
    stdout,          \* what was written to the stdout writer
    toJSON,          \* jsonFlag of the run
    pc,              \* position of the running function
    legacyObjects,   \* LegacyObjects.AddressPoolList.Items of the current step
    currentObjects,  \* *CurrentObjects returned by Convert (nil is <<>>)
    idx,             \* position of the Delete / Create loop in its member list
    err,             \* error returned by the function (nil is <<>>)
    initial,         \* history: the store at the start of the run
    log              \* history: store and backup calls issued, in order

vars == <<store, backupDir, inDir, outDir, stdout, toJSON, pc, legacyObjects,
          currentObjects, idx, err, initial, log>>

(***************************************************************************)
(* Bounds                                                                  *)
(***************************************************************************)
\* number of distinct pool names the live store may hold
NumNames == 3
\* largest number of bgpAdvertisements entries of one pool
MaxAdvs == 2
\* longest pool list handed to Convert on its own
MaxPools == 2

(***************************************************************************)
(* Program constants                                                       *)
(***************************************************************************)
ProtocolBGP == "bgp"
ProtocolLayer2 == "layer2"
metallbAPIGroup == "metallb.io"
metallbAPIVersion == "metallb.io/v1beta1"
supportedLegacyGKVVersions == {"v1beta1"}

\* limit of the fetch of one loop iteration
LoopLimit == 1
\* the backup fed by a fetch of one pool, as inside the loop
BackupLimitOne == LoopLimit
\* limit of the fetch that feeds the backup (0 is unbounded)
BackupLimit == 0

(***************************************************************************)
(* Data universes                                                          *)
(***************************************************************************)
\* pool names in the key order of the store
PoolNames == <<"ap-bgp", "ap-bgp2", "ap-l2", "ap-l3">>
Namespaces == <<"default", "metallb-system">>
Protocols == {ProtocolLayer2, ProtocolBGP, "ospf"}

AdvA == [AggregationLength |-> <<32>>, AggregationLengthV6 |-> <<64>>,
         LocalPref |-> 10, Communities |-> <<"65432:12345">>]
AdvB == [AggregationLength |-> <<>>, AggregationLengthV6 |-> <<0>>,
         LocalPref |-> 11, Communities |-> <<"65433:12346", "65432:12345">>]
AdvC == [AggregationLength |-> <<24>>, AggregationLengthV6 |-> <<>>,
         LocalPref |-> 0, Communities |-> <<>>]
AdvList == <<AdvA, AdvB, AdvC>>

\* the advertisement lists of bgp pools in the live store: prefixes of AdvList
StoreAdvLists == {SubSeq(AdvList, 1, k) : k \in 0..MaxAdvs}

\* the advertisement lists of bgp pools handed to Convert on its own
ConvertAdvLists == StoreAdvLists \cup {<<AdvB>>}

AddressPool(name, ns, proto, addrs, auto, advs) ==
    [Name |-> name, Namespace |-> ns, Protocol |-> proto, Addresses |-> addrs,
     AutoAssign |-> auto, BGPAdvertisements |-> advs]

\* a pool as the test declares them: one address, autoAssign set
TestPool(name, proto, advs) ==
    AddressPool(name, Namespaces[2], proto, <<"192.168.100.100">>, <<TRUE>>, advs)

\* the pools a live store may hold under a given name
StorePools(name) ==
    {TestPool(name, ProtocolLayer2, advs) : advs \in {<<>>, <<AdvA>>}}
    \cup {TestPool(name, ProtocolBGP, advs) : advs \in StoreAdvLists}
    \cup {TestPool(name, "ospf", <<>>)}

(***************************************************************************)
(* LegacyObjects.Convert                                                   *)
(***************************************************************************)
\* Go's %d of a small non-negative int
FormatInt(i) == ToString(i)

\* the three empty lists Convert starts from
EmptyCurrentObjects ==
    [IPAddressPoolList |-> <<>>, L2AdvertisementList |-> <<>>,
     BGPAdvertisementList |-> <<>>]

\* the IPAddressPool built from one legacy pool
IPAddressPoolOf(ap) ==
    [Kind |-> "IPAddressPool", APIVersion |-> metallbAPIVersion,
     Name |-> ap.Name, Namespace |-> ap.Namespace,
     Addresses |-> ap.Addresses, AutoAssign |-> ap.AutoAssign]

\* the L2Advertisement built from one layer2 pool
L2AdvertisementOf(ap) ==
    [Kind |-> "L2Advertisement", APIVersion |-> metallbAPIVersion,
     Name |-> ap.Name \o "-l2-advertisement", Namespace |-> ap.Namespace,
     IPAddressPools |-> <<ap.Name>>]

\* metallbv1beta1.LegacyBgpAdvertisement{}
ZeroLegacyBgpAdvertisement ==
    [AggregationLength |-> <<>>, AggregationLengthV6 |-> <<>>,
     LocalPref |-> 0, Communities |-> <<>>]

\* the advertisement list Convert iterates over: the pool's own, or one dummy
LegacyBGPAdvertisementsNoDummy(ap) == ap.BGPAdvertisements
LegacyBGPAdvertisements(ap) ==
    IF Len(ap.BGPAdvertisements) = 0
    THEN Append(ap.BGPAdvertisements, ZeroLegacyBgpAdvertisement)
    ELSE ap.BGPAdvertisements

\* the name of the BGPAdvertisement at Go index i
BGPAdvertisementNameOneBased(ap, i) ==
    ap.Name \o "-bgp-advertisement-" \o FormatInt(i + 1)
BGPAdvertisementNameUnnumbered(ap, i) ==
    ap.Name \o "-bgp-advertisement"
BGPAdvertisementName(ap, i) ==
    ap.Name \o "-bgp-advertisement-" \o FormatInt(i)

\* the BGPAdvertisement built from the advertisement at Go index i
BGPAdvertisementCoerced(ap, advs, i) ==
    [Kind |-> "BGPAdvertisement", APIVersion |-> metallbAPIVersion,
     Name |-> BGPAdvertisementName(ap, i), Namespace |-> ap.Namespace,
     AggregationLength |-> IF advs[i + 1].AggregationLength = <<>>
                           THEN <<0>> ELSE advs[i + 1].AggregationLength,
     AggregationLengthV6 |-> advs[i + 1].AggregationLengthV6,
     LocalPref |-> advs[i + 1].LocalPref,
     Communities |-> advs[i + 1].Communities,
     IPAddressPools |-> <<ap.Name>>]
BGPAdvertisementOf(ap, advs, i) ==
    [Kind |-> "BGPAdvertisement", APIVersion |-> metallbAPIVersion,
     Name |-> BGPAdvertisementName(ap, i), Namespace |-> ap.Namespace,
     AggregationLength |-> advs[i + 1].AggregationLength,
     AggregationLengthV6 |-> advs[i + 1].AggregationLengthV6,
     LocalPref |-> advs[i + 1].LocalPref,
     Communities |-> advs[i + 1].Communities,
     IPAddressPools |-> <<ap.Name>>]

\* the inner loop: one BGPAdvertisement per entry, in order
BGPAdvertisementsOf(ap) ==
    LET advs == LegacyBGPAdvertisements(ap)
    IN  [k \in 1..Len(advs) |-> BGPAdvertisementOf(ap, advs, k - 1)]

\* one iteration of the loop over the pools, for a supported protocol
ConvertOneBothKinds(cur, ap) ==
    [IPAddressPoolList |-> Append(cur.IPAddressPoolList, IPAddressPoolOf(ap)),
     L2AdvertisementList |->
        IF ap.Protocol = ProtocolLayer2
        THEN Append(cur.L2AdvertisementList, L2AdvertisementOf(ap))
        ELSE cur.L2AdvertisementList,
     BGPAdvertisementList |->
        IF ap.Protocol = ProtocolBGP \/ Len(ap.BGPAdvertisements) > 0
        THEN cur.BGPAdvertisementList \o BGPAdvertisementsOf(ap)
        ELSE cur.BGPAdvertisementList]
ConvertOneDropPool(cur, ap) ==
    [IPAddressPoolList |->
        IF ap.Protocol = ProtocolBGP /\ Len(cur.IPAddressPoolList) > 0
        THEN cur.IPAddressPoolList
        ELSE Append(cur.IPAddressPoolList, IPAddressPoolOf(ap)),
     L2AdvertisementList |->
        IF ap.Protocol = ProtocolLayer2
        THEN Append(cur.L2AdvertisementList, L2AdvertisementOf(ap))
        ELSE cur.L2AdvertisementList,
     BGPAdvertisementList |->
        IF ap.Protocol = ProtocolBGP
        THEN cur.BGPAdvertisementList \o BGPAdvertisementsOf(ap)
        ELSE cur.BGPAdvertisementList]
ConvertOnePrepend(cur, ap) ==
    [IPAddressPoolList |-> <<IPAddressPoolOf(ap)>> \o cur.IPAddressPoolList,
     L2AdvertisementList |->
        IF ap.Protocol = ProtocolLayer2
        THEN <<L2AdvertisementOf(ap)>> \o cur.L2AdvertisementList
        ELSE cur.L2AdvertisementList,
     BGPAdvertisementList |->
        IF ap.Protocol = ProtocolBGP
        THEN BGPAdvertisementsOf(ap) \o cur.BGPAdvertisementList
        ELSE cur.BGPAdvertisementList]
\* a Convert that numbers the BGPAdvertisements through the whole list
ConvertOneNumberedThrough(cur, ap) ==
    [IPAddressPoolList |-> Append(cur.IPAddressPoolList, IPAddressPoolOf(ap)),
     L2AdvertisementList |->
        IF ap.Protocol = ProtocolLayer2
        THEN Append(cur.L2AdvertisementList, L2AdvertisementOf(ap))
        ELSE cur.L2AdvertisementList,
     BGPAdvertisementList |->
        IF ap.Protocol = ProtocolBGP
        THEN cur.BGPAdvertisementList
             \o [k \in DOMAIN BGPAdvertisementsOf(ap) |->
                    [BGPAdvertisementsOf(ap)[k] EXCEPT
                        !.Name = BGPAdvertisementName(ap, Len(cur.BGPAdvertisementList) + k - 1)]]
        ELSE cur.BGPAdvertisementList]
ConvertOne(cur, ap) ==
    [IPAddressPoolList |-> Append(cur.IPAddressPoolList, IPAddressPoolOf(ap)),
     L2AdvertisementList |->
        IF ap.Protocol = ProtocolLayer2
        THEN Append(cur.L2AdvertisementList, L2AdvertisementOf(ap))
        ELSE cur.L2AdvertisementList,
     BGPAdvertisementList |->
        IF ap.Protocol = ProtocolBGP
        THEN cur.BGPAdvertisementList \o BGPAdvertisementsOf(ap)
        ELSE cur.BGPAdvertisementList]

\* what Convert returns when it meets an unsupported protocol
UnsupportedProtocolPartial(cur) ==
    [objects |-> <<cur>>, err |-> <<"unsupported Spec.Protocol for AddressPool">>]
UnsupportedProtocol(cur) ==
    [objects |-> <<>>, err |-> <<"unsupported Spec.Protocol for AddressPool">>]

\* the loop over the pools from position k on, cur holding what was built so far
RECURSIVE ConvertLoop(_, _, _)
ConvertLoop(items, k, cur) ==
    IF k > Len(items)
    THEN [objects |-> <<cur>>, err |-> <<>>]
    ELSE IF items[k].Protocol \in {ProtocolLayer2, ProtocolBGP}
         THEN ConvertLoop(items, k + 1, ConvertOne(cur, items[k]))
         ELSE UnsupportedProtocol(ConvertOne(cur, items[k]))

\* LegacyObjects.Convert: (*CurrentObjects, error)
Convert(items) == ConvertLoop(items, 1, EmptyCurrentObjects)

(***************************************************************************)
(* The live store (client.Client)                                          *)
(***************************************************************************)
Kinds == {"AddressPool", "IPAddressPool", "BGPAdvertisement", "L2Advertisement"}

\* does the store hold an object of this kind under this namespace and name
Exists(st, kind, ns, name) ==
    \E o \in st[kind] : o.Namespace = ns /\ o.Name = name

\* the store after a successful c.Create of obj
CreatedReplacing(st, kind, obj) == [st EXCEPT ![kind] = {obj}]
Created(st, kind, obj) == [st EXCEPT ![kind] = @ \cup {obj}]

\* a Delete that leaves the object in the store
DeletedKept(st, kind, obj) == st

\* the store after a successful c.Delete of the object with obj's key
Deleted(st, kind, obj) ==
    [st EXCEPT ![kind] = {o \in @ : ~(o.Namespace = obj.Namespace /\ o.Name = obj.Name)}]

\* position of a value in a sequence without repetitions
Rank(seq, v) == CHOOSE i \in 1..Len(seq) : seq[i] = v

\* key order of the store: namespace, then name
KeyLess(a, b) ==
    \/ Rank(Namespaces, a.Namespace) < Rank(Namespaces, b.Namespace)
    \/ /\ a.Namespace = b.Namespace
       /\ Rank(PoolNames, a.Name) < Rank(PoolNames, b.Name)

\* c.List: the objects of a set in key order
RECURSIVE Listed(_)
Listed(objs) ==
    IF objs = {} THEN <<>>
    ELSE LET first == CHOOSE o \in objs : \A p \in objs \ {o} : KeyLess(o, p)
         IN  <<first>> \o Listed(objs \ {first})

\* the truncation of a listing to limit items (limit 0 is unbounded)
LimitedNot(items, limit) == items
LimitedToTwo(items, limit) ==
    IF limit > 0 /\ Len(items) > limit + 1 THEN SubSeq(items, 1, limit + 1) ELSE items
Limited(items, limit) ==
    IF limit > 0 /\ Len(items) > limit THEN SubSeq(items, 1, limit) ELSE items

\* ReadLegacyObjectsFromAPI(c, limit), when c.List succeeds
ReadLegacyObjectsFromAPI(st, limit) == Limited(Listed(st["AddressPool"]), limit)

(***************************************************************************)
(* LegacyObjects.Print to a directory                                      *)
(***************************************************************************)
\* the document the printer writes for one pool (Kind and APIVersion filled in)
PrintedAddressPool(ap) ==
    [apiVersion |-> metallbAPIVersion, kind |-> "AddressPool",
     metadata |-> [name |-> ap.Name, namespace |-> ap.Namespace],
     spec |-> [protocol |-> ap.Protocol, addresses |-> ap.Addresses,
               autoAssign |-> ap.AutoAssign,
               bgpAdvertisements |-> ap.BGPAdvertisements]]

\* a file or stream is a sequence of chunks: the document boundary marker
\* "---" or one printed document
Marker == <<>>
Document(doc) == <<doc>>

\* printer.PrintObj for each of docs in turn, by a printer that printed
\* `printed` objects before: the YAML printer writes the marker before every
\* object but its first, the JSON printer writes no marker
RECURSIVE PrintObjsNoMarker(_, _, _)
PrintObjsNoMarker(docs, json, printed) ==
    IF Len(docs) = 0 THEN <<>>
    ELSE <<Document(Head(docs))>> \o PrintObjsNoMarker(Tail(docs), json, printed + 1)
RECURSIVE PrintObjs(_, _, _)
PrintObjs(docs, json, printed) ==
    IF Len(docs) = 0 THEN <<>>
    ELSE (IF ~json /\ printed >= 1 THEN <<Marker>> ELSE <<>>)
         \o <<Document(Head(docs))>>
         \o PrintObjs(Tail(docs), json, printed + 1)

FileExtension(json) == IF json THEN "json" ELSE "yaml"

\* the file LegacyObjects.Print opens
LegacyFileName(json) == "AddressPool." \o FileExtension(json)

\* a Print that keeps a backup file that is already there
LegacyPrintedOnce(dir, items, json) ==
    IF Len(items) = 0 \/ \E f \in dir : f.name = LegacyFileName(json) THEN dir
    ELSE dir \cup
         {[name |-> LegacyFileName(json),
           content |-> PrintObjs([k \in 1..Len(items) |-> PrintedAddressPool(items[k])],
                                 json, 0)]}

\* the directory after LegacyObjects.Print(dir, json) of items succeeded
LegacyPrinted(dir, items, json) ==
    IF Len(items) = 0 THEN dir
    ELSE {f \in dir : f.name # LegacyFileName(json)} \cup
         {[name |-> LegacyFileName(json),
           content |-> PrintObjs([k \in 1..Len(items) |-> PrintedAddressPool(items[k])],
                                 json, 0)]}

(***************************************************************************)
(* CurrentObjects.Create / LegacyObjects.Delete member order               *)
(***************************************************************************)
\* the order in which CurrentObjects.Create posts the members
CreateOrderNoL2(cur) == cur.IPAddressPoolList \o cur.BGPAdvertisementList
CreateOrderAdvertisementsFirst(cur) ==
    cur.BGPAdvertisementList \o cur.L2AdvertisementList \o cur.IPAddressPoolList
CreateOrder(cur) ==
    cur.IPAddressPoolList \o cur.BGPAdvertisementList \o cur.L2AdvertisementList

Event(op, kind, obj, result) ==
    [op |-> op, kind |-> kind, namespace |-> obj.Namespace, name |-> obj.Name,
     result |-> result]

\* fmt.Errorf("<stage>, err: %w", cause)
Wrapped(stage, cause) == <<[stage |-> stage, cause |-> cause]>>

(***************************************************************************)
(* Initial states                                                          *)
(***************************************************************************)
StoreNames == {PoolNames[i] : i \in 1..NumNames}

\* the pools a live store may hold under one name: none or one
Slot(n) == {{}} \cup {{q} : q \in StorePools(n)}

\* the legacy pool sets a live store may hold: at most one pool per name
LegacyStores ==
    {UNION {f[n] : n \in StoreNames} :
        f \in {g \in [StoreNames -> UNION {Slot(n) : n \in StoreNames}] :
                  \A n \in StoreNames : g[n] \in Slot(n)}}

\* the current-schema objects a live store may hold before the run
PreexistingIPAddressPools ==
    {{}, {[Kind |-> "IPAddressPool", APIVersion |-> metallbAPIVersion,
           Name |-> PoolNames[2], Namespace |-> Namespaces[2],
           Addresses |-> <<"192.168.100.100">>, AutoAssign |-> <<TRUE>>]}}

\* start of OnlineMigration(c, scheme, backupDirFlag, jsonFlag)
Init ==
    /\ \E legacy \in LegacyStores, iaps \in PreexistingIPAddressPools :
          store = [AddressPool |-> legacy, IPAddressPool |-> iaps,
                   BGPAdvertisement |-> {}, L2Advertisement |-> {}]
    /\ backupDir = {}
    /\ inDir = <<>>
    /\ outDir = <<>>
    /\ stdout = <<>>
    /\ toJSON \in BOOLEAN
    /\ pc = "read"
    /\ legacyObjects = <<>>
    /\ currentObjects = <<>>
    /\ idx = 1
    /\ err = <<>>
    /\ initial = store
    /\ log = <<>>

(***************************************************************************)
(* OnlineMigration                                                         *)
(***************************************************************************)
\* return of an error from OnlineMigration
FailUnwrapped(stage, cause) ==
    /\ pc' = "failed"
    /\ err' = Wrapped(stage, "")
Fail(stage, cause) ==
    /\ pc' = "failed"
    /\ err' = Wrapped(stage, cause)

ListEvent(result) ==
    [op |-> "List", kind |-> "AddressPool", namespace |-> "", name |-> "",
     result |-> result]

PrintEvent(result) ==
    [op |-> "Print", kind |-> "AddressPool", namespace |-> "", name |-> "",
     result |-> result]

\* legacyObjects, err := ReadLegacyObjectsFromAPI(c, 0)
OnlineRead ==
    /\ pc = "read"
    /\ \/ /\ Fail("error during retrieval step", "StoreError")
          /\ log' = Append(log, ListEvent("error"))
          /\ UNCHANGED legacyObjects
       \/ /\ legacyObjects' = ReadLegacyObjectsFromAPI(store, BackupLimit)
          /\ log' = Append(log, ListEvent("ok"))
          /\ pc' = "backup"
          /\ UNCHANGED err
    /\ UNCHANGED <<store, backupDir, toJSON, currentObjects, idx, initial>>
    /\ UNCHANGED <<inDir, outDir, stdout>>

\* err = legacyObjects.Print(backupDirFlag, jsonFlag); log.Fatal on error
OnlineBackupContinues ==
    /\ pc = "backup"
    /\ \/ /\ Len(legacyObjects) > 0
          /\ pc' = "fetch"
          /\ log' = Append(log, PrintEvent("error"))
          /\ UNCHANGED backupDir
       \/ /\ backupDir' = LegacyPrinted(backupDir, legacyObjects, toJSON)
          /\ log' = IF Len(legacyObjects) > 0
                    THEN Append(log, PrintEvent("ok")) ELSE log
          /\ pc' = "fetch"
    /\ UNCHANGED <<store, toJSON, legacyObjects, currentObjects, idx, err, initial>>
    /\ UNCHANGED <<inDir, outDir, stdout>>
OnlineBackup ==
    /\ pc = "backup"
    /\ \/ /\ Len(legacyObjects) > 0
          /\ pc' = "fatal"
          /\ log' = Append(log, PrintEvent("error"))
          /\ UNCHANGED backupDir
       \/ /\ backupDir' = LegacyPrinted(backupDir, legacyObjects, toJSON)
          /\ log' = IF Len(legacyObjects) > 0
                    THEN Append(log, PrintEvent("ok")) ELSE log
          /\ pc' = "fetch"
    /\ UNCHANGED <<store, toJSON, legacyObjects, currentObjects, idx, err, initial>>
    /\ UNCHANGED <<inDir, outDir, stdout>>

\* legacyObjects, err := ReadLegacyObjectsFromAPI(c, 1); break when empty
OnlineFetch ==
    /\ pc = "fetch"
    /\ \/ /\ Fail("error during retrieval step", "StoreError")
          /\ log' = Append(log, ListEvent("error"))
          /\ UNCHANGED legacyObjects
       \/ /\ legacyObjects' = ReadLegacyObjectsFromAPI(store, LoopLimit)
          /\ log' = Append(log, ListEvent("ok"))
          /\ pc' = IF Len(legacyObjects') = 0 THEN "done" ELSE "convert"
          /\ UNCHANGED err
    /\ UNCHANGED <<store, backupDir, toJSON, currentObjects, idx, initial>>
    /\ UNCHANGED <<inDir, outDir, stdout>>

\* currentObjects, err := legacyObjects.Convert()
OnlineConvert ==
    /\ pc = "convert"
    /\ LET r == Convert(legacyObjects)
       IN  IF r.err # <<>>
           THEN /\ Fail("error during conversion step", r.err[1])
                /\ UNCHANGED <<currentObjects, idx>>
           ELSE /\ currentObjects' = r.objects
                /\ pc' = "delete"
                /\ idx' = 1
                /\ UNCHANGED err
    /\ UNCHANGED <<store, backupDir, toJSON, legacyObjects, initial, log>>
    /\ UNCHANGED <<inDir, outDir, stdout>>

\* a Delete that reports a pool that is already gone as a failure
OnlineDeleteNotFoundFails ==
    /\ pc = "delete"
    /\ LET ap == legacyObjects[idx]
       IN  \/ /\ Fail("online migration failed during legacy object deletion", "StoreError")
              /\ log' = Append(log, Event("Delete", "AddressPool", ap, "error"))
              /\ UNCHANGED <<store, idx>>
           \/ IF Exists(store, "AddressPool", ap.Namespace, ap.Name)
              THEN /\ store' = Deleted(store, "AddressPool", ap)
                   /\ log' = Append(log, Event("Delete", "AddressPool", ap, "ok"))
                   /\ IF idx = Len(legacyObjects)
                      THEN pc' = "create" /\ idx' = 1
                      ELSE pc' = pc /\ idx' = idx + 1
                   /\ UNCHANGED err
              ELSE /\ Fail("online migration failed during legacy object deletion",
                           "NotFound")
                   /\ log' = Append(log, Event("Delete", "AddressPool", ap, "notfound"))
                   /\ UNCHANGED <<store, idx>>
    /\ UNCHANGED <<backupDir, toJSON, legacyObjects, currentObjects, initial>>
    /\ UNCHANGED <<inDir, outDir, stdout>>

\* one iteration of the loop of legacyObjects.Delete(c)
OnlineDelete ==
    /\ pc = "delete"
    /\ LET ap == legacyObjects[idx]
       IN  \/ /\ Fail("online migration failed during legacy object deletion", "StoreError")
              /\ log' = Append(log, Event("Delete", "AddressPool", ap, "error"))
              /\ UNCHANGED <<store, idx>>
           \/ /\ store' = Deleted(store, "AddressPool", ap)
              /\ log' = Append(log, Event("Delete", "AddressPool", ap,
                                  IF Exists(store, "AddressPool", ap.Namespace, ap.Name)
                                  THEN "ok" ELSE "notfound"))
              /\ IF idx = Len(legacyObjects)
                 THEN pc' = "create" /\ idx' = 1
                 ELSE pc' = pc /\ idx' = idx + 1
              /\ UNCHANGED err
    /\ UNCHANGED <<backupDir, toJSON, legacyObjects, currentObjects, initial>>
    /\ UNCHANGED <<inDir, outDir, stdout>>

\* a Create that skips an object that is already in the store
OnlineCreateSkipsExisting ==
    /\ pc = "create"
    /\ LET members == CreateOrder(currentObjects[1])
           obj == members[idx]
       IN  \/ /\ Fail("online migration failed during current object creation", "StoreError")
              /\ log' = Append(log, Event("Create", obj.Kind, obj, "error"))
              /\ UNCHANGED <<store, idx>>
           \/ /\ IF Exists(store, obj.Kind, obj.Namespace, obj.Name)
                 THEN /\ store' = store
                      /\ log' = Append(log, Event("Create", obj.Kind, obj, "exists"))
                 ELSE /\ store' = Created(store, obj.Kind, obj)
                      /\ log' = Append(log, Event("Create", obj.Kind, obj, "ok"))
              /\ IF idx = Len(members)
                 THEN pc' = "fetch" /\ idx' = 1
                 ELSE pc' = pc /\ idx' = idx + 1
              /\ UNCHANGED err
    /\ UNCHANGED <<backupDir, toJSON, legacyObjects, currentObjects, initial>>
    /\ UNCHANGED <<inDir, outDir, stdout>>

\* one iteration of the loops of currentObjects.Create(c)
OnlineCreate ==
    /\ pc = "create"
    /\ LET members == CreateOrder(currentObjects[1])
           obj == members[idx]
       IN  \/ /\ Fail("online migration failed during current object creation", "StoreError")
              /\ log' = Append(log, Event("Create", obj.Kind, obj, "error"))
              /\ UNCHANGED <<store, idx>>
           \/ IF Exists(store, obj.Kind, obj.Namespace, obj.Name)
              THEN /\ Fail("online migration failed during current object creation",
                           "AlreadyExists")
                   /\ log' = Append(log, Event("Create", obj.Kind, obj, "exists"))
                   /\ UNCHANGED <<store, idx>>
              ELSE /\ store' = Created(store, obj.Kind, obj)
                   /\ log' = Append(log, Event("Create", obj.Kind, obj, "ok"))
                   /\ IF idx = Len(members)
                      THEN pc' = "fetch" /\ idx' = 1
                      ELSE pc' = pc /\ idx' = idx + 1
                   /\ UNCHANGED err
    /\ UNCHANGED <<backupDir, toJSON, legacyObjects, currentObjects, initial>>
    /\ UNCHANGED <<inDir, outDir, stdout>>

Next ==
    \/ OnlineRead
    \/ OnlineBackup
    \/ OnlineFetch
    \/ OnlineConvert
    \/ OnlineDelete
    \/ OnlineCreate

Spec == Init /\ [][Next]_vars

\* OnlineMigration runs in one goroutine and every call it makes returns: a
\* run that can take a step takes it
SpecFair == Init /\ [][Next]_vars /\ WF_vars(Next)

(***************************************************************************)
(* OnlineMigration next to an external writer of the store                 *)
(***************************************************************************)
\* the number of pools the external writer deletes
ExternalDeletes == 1

\* the runs with an external writer start from at most MaxPools pools and no
\* current-schema objects
InitRace ==
    /\ Init
    /\ Cardinality(store["AddressPool"]) <= MaxPools
    /\ store["IPAddressPool"] = {}

\* another client deletes a legacy pool while the migration is running
ExternalDelete ==
    /\ pc \in {"read", "backup", "fetch", "convert", "delete", "create"}
    /\ Cardinality({k \in DOMAIN log : log[k].op = "ExternalDelete"}) < ExternalDeletes
    /\ \E ap \in store["AddressPool"] :
          /\ store' = Deleted(store, "AddressPool", ap)
          /\ log' = Append(log, Event("ExternalDelete", "AddressPool", ap, "ok"))
    /\ UNCHANGED <<backupDir, inDir, outDir, stdout, toJSON, pc, legacyObjects,
                   currentObjects, idx, err, initial>>

NextRace ==
    \/ Next
    \/ ExternalDelete

SpecRace == InitRace /\ [][NextRace]_vars

(***************************************************************************)
(* OnlineMigration run again with the same backup directory                *)
(***************************************************************************)
\* the number of runs that follow the first one
Reruns == 1

\* the first run starts from at most MaxPools pools and no current-schema
\* objects
InitRerun ==
    /\ Init
    /\ Cardinality(store["AddressPool"]) <= MaxPools
    /\ store["IPAddressPool"] = {}

\* the start of a further run; the event keeps the format of the run before
RunEvent(json) ==
    [op |-> "Run", kind |-> "", namespace |-> "", name |-> "",
     result |-> FileExtension(json)]

\* OnlineMigration is called again after a run has ended, on the store and
\* the backup directory that run left, with a format flag of its own
Rerun ==
    /\ pc \in {"done", "failed", "fatal"}
    /\ Cardinality({k \in DOMAIN log : log[k].op = "Run"}) < Reruns
    /\ toJSON' \in BOOLEAN
    /\ pc' = "read"
    /\ legacyObjects' = <<>>
    /\ currentObjects' = <<>>
    /\ idx' = 1
    /\ err' = <<>>
    /\ log' = Append(log, RunEvent(toJSON))
    /\ UNCHANGED <<store, backupDir, inDir, outDir, stdout, initial>>

NextRerun ==
    \/ Next
    \/ Rerun

SpecRerun == InitRerun /\ [][NextRerun]_vars

(***************************************************************************)
(* Convert on its own: a call of LegacyObjects.Convert on a pool list      *)
(***************************************************************************)
\* the pools of the lists handed to Convert
ConvertPools ==
    {TestPool(PoolNames[1], ProtocolLayer2, advs) : advs \in {<<>>, <<AdvA>>}}
    \cup {TestPool(PoolNames[1], ProtocolBGP, advs) : advs \in ConvertAdvLists}
    \cup {TestPool(PoolNames[3], ProtocolLayer2, advs) : advs \in {<<>>, <<AdvA>>}}
    \cup {TestPool(PoolNames[3], ProtocolBGP, advs) : advs \in {<<>>, <<AdvB>>}}
    \cup {TestPool(name, "ospf", <<>>) : name \in {PoolNames[1], PoolNames[3]}}
    \cup {AddressPool(PoolNames[1], Namespaces[1], ProtocolLayer2,
                      <<"10.0.0.0/24", "fc00::/64">>, <<>>, <<AdvC>>),
          AddressPool(PoolNames[1], Namespaces[1], ProtocolBGP,
                      <<"10.0.0.0/24", "fc00::/64">>, <<FALSE>>, <<AdvC>>)}

\* the pool lists handed to Convert
ConvertInputs == UNION {[1..n -> ConvertPools] : n \in 0..MaxPools}

InitConvert ==
    /\ store = [AddressPool |-> {}, IPAddressPool |-> {},
                BGPAdvertisement |-> {}, L2Advertisement |-> {}]
    /\ backupDir = {}
    /\ inDir = <<>>
    /\ outDir = <<>>
    /\ stdout = <<>>
    /\ toJSON = FALSE
    /\ pc = "call"
    /\ legacyObjects \in ConvertInputs
    /\ currentObjects = <<>>
    /\ idx = 1
    /\ err = <<>>
    /\ initial = store
    /\ log = <<>>

\* currentObjects, err := legacyObjects.Convert()
ConvertCall ==
    /\ pc = "call"
    /\ currentObjects' = Convert(legacyObjects).objects
    /\ err' = Convert(legacyObjects).err
    /\ pc' = "returned"
    /\ UNCHANGED <<store, backupDir, toJSON, legacyObjects, idx, initial, log>>
    /\ UNCHANGED <<inDir, outDir, stdout>>

NextConvert == ConvertCall

SpecConvert == InitConvert /\ [][NextConvert]_vars

(***************************************************************************)
(* CurrentObjects.Print                                                    *)
(***************************************************************************)
\* the document the printer writes for one object of the current schema
PrintedObject(obj) ==
    [apiVersion |-> obj.APIVersion, kind |-> obj.Kind,
     metadata |-> [name |-> obj.Name, namespace |-> obj.Namespace],
     spec |-> IF obj.Kind = "IPAddressPool"
              THEN [addresses |-> obj.Addresses, autoAssign |-> obj.AutoAssign]
              ELSE IF obj.Kind = "L2Advertisement"
              THEN [ipAddressPools |-> obj.IPAddressPools]
              ELSE [aggregationLength |-> obj.AggregationLength,
                    aggregationLengthV6 |-> obj.AggregationLengthV6,
                    localPref |-> obj.LocalPref,
                    communities |-> obj.Communities,
                    ipAddressPools |-> obj.IPAddressPools]]

PrintedObjects(items) == [k \in 1..Len(items) |-> PrintedObject(items[k])]

\* the fields of the struct in the order reflection visits them, the empty
\* lists skipped
NonEmptyFields(cur) ==
    SelectSeq(<<cur.IPAddressPoolList, cur.L2AdvertisementList, cur.BGPAdvertisementList>>,
              LAMBDA items : Len(items) > 0)

\* the file opened for one list: the kind of its first item and the extension
CurrentFileNameYAML(items, json) == items[1].Kind \o ".yaml"
CurrentFileName(items, json) == items[1].Kind \o "." \o FileExtension(json)

\* the directory after the first n of the lists were written, each by a printer
\* of its own to a file opened with O_TRUNC
RECURSIVE PrintedToDirectory(_, _, _, _)
PrintedToDirectory(dir, fields, json, n) ==
    IF n = 0 THEN dir
    ELSE LET before == PrintedToDirectory(dir, fields, json, n - 1)
             name == CurrentFileName(fields[n], json)
         IN  {f \in before : f.name # name} \cup
             {[name |-> name, content |-> PrintObjs(PrintedObjects(fields[n]), json, 0)]}

\* all lists printed one after the other to stdout by one printer
RECURSIVE Concatenated(_)
Concatenated(fields) ==
    IF Len(fields) = 0 THEN <<>> ELSE Head(fields) \o Concatenated(Tail(fields))

PrintedToStdout(out, cur, json) ==
    out \o PrintObjs(PrintedObjects(Concatenated(NonEmptyFields(cur))), json, 0)

(***************************************************************************)
(* ReadLegacyObjectsFromDirectory                                          *)
(***************************************************************************)
\* file names in the order of os.ReadDir
FileOrder ==
    <<"AddressPool.json", "AddressPool.yaml", "BGPAdvertisement.json",
      "BGPAdvertisement.yaml", "IPAddressPool.json", "IPAddressPool.yaml",
      "L2Advertisement.json", "L2Advertisement.yaml", "bgp-addresspools.yaml",
      "l2-addresspools.yaml">>

RECURSIVE ReadDir(_)
ReadDir(dir) ==
    IF dir = {} THEN <<>>
    ELSE LET first == CHOOSE f \in dir :
                         \A g \in dir \ {f} : Rank(FileOrder, f.name) < Rank(FileOrder, g.name)
         IN  <<first>> \o ReadDir(dir \ {first})

\* bytes.Split(fileContent, "\n---"): the runs of documents between markers
RECURSIVE Split(_, _)
Split(content, element) ==
    IF Len(content) = 0 THEN <<element>>
    ELSE IF Head(content) = Marker
         THEN <<element>> \o Split(Tail(content), <<>>)
         ELSE Split(Tail(content), Append(element, Head(content)[1]))

\* group and version of an apiVersion
GroupVersions ==
    {[apiVersion |-> "metallb.io/v1beta1", Group |-> "metallb.io", Version |-> "v1beta1"],
     [apiVersion |-> "metallb.io/v1beta2", Group |-> "metallb.io", Version |-> "v1beta2"],
     [apiVersion |-> "v1", Group |-> "", Version |-> "v1"]}
ParseGroupVersion(apiVersion) == CHOOSE gv \in GroupVersions : gv.apiVersion = apiVersion

\* the kinds metallbv1beta1.AddToScheme registers
SchemeKinds ==
    {"AddressPool", "AddressPoolList", "IPAddressPool", "IPAddressPoolList",
     "BGPAdvertisement", "BGPAdvertisementList", "L2Advertisement",
     "L2AdvertisementList"}
Registered(gkv) ==
    /\ gkv.Group = "metallb.io"
    /\ gkv.Version = "v1beta1"
    /\ gkv.Kind \in SchemeKinds

\* the pool a decoded AddressPool document holds
DecodedAddressPool(doc) ==
    AddressPool(doc.metadata.name, doc.metadata.namespace, doc.spec.protocol,
                doc.spec.addresses, doc.spec.autoAssign, doc.spec.bgpAdvertisements)

\* decode(element, nil, nil): one document of a registered kind, else an error
Decode(element) ==
    IF Len(element) # 1
    THEN [obj |-> <<>>, gkv |-> <<>>, err |-> <<"cannot decode">>]
    ELSE LET gv == ParseGroupVersion(element[1].apiVersion)
             gkv == [Group |-> gv.Group, Version |-> gv.Version, Kind |-> element[1].kind]
         IN  IF Registered(gkv)
             THEN [obj |-> <<element[1]>>, gkv |-> <<gkv>>, err |-> <<>>]
             ELSE [obj |-> <<>>, gkv |-> <<>>, err |-> <<"no kind is registered">>]

\* the default case of the switch over gkv.Kind
UnsupportedKindSkipped(items, kind) ==
    [items |-> items, err |-> <<>>]
UnsupportedKind(items, kind) ==
    [items |-> <<>>, err |-> <<"unsupported GKV: " \o kind>>]

\* the body of the loop over the elements: the pools appended, or the error
ReadElement(items, element) ==
    LET d == Decode(element)
    IN  IF d.err # <<>> THEN [items |-> <<>>, err |-> d.err]
        ELSE IF d.gkv[1].Group # metallbAPIGroup
        THEN [items |-> <<>>, err |-> <<"invalid gkv.Group">>]
        ELSE IF d.gkv[1].Version \notin supportedLegacyGKVVersions
        THEN [items |-> <<>>, err |-> <<"invalid gkv.Version">>]
        ELSE IF d.gkv[1].Kind = "AddressPool"
        THEN [items |-> Append(items, DecodedAddressPool(d.obj[1])), err |-> <<>>]
        ELSE IF d.gkv[1].Kind = "AddressPoolList"
        THEN [items |-> items \o [k \in 1..Len(d.obj[1].items) |->
                                     DecodedAddressPool(d.obj[1].items[k])],
              err |-> <<>>]
        ELSE UnsupportedKind(items, d.gkv[1].Kind)

RECURSIVE ReadElements(_, _)
ReadElements(items, elements) ==
    IF Len(elements) = 0 THEN [items |-> items, err |-> <<>>]
    ELSE LET r == ReadElement(items, Head(elements))
         IN  IF r.err # <<>> THEN r ELSE ReadElements(r.items, Tail(elements))

RECURSIVE ReadFiles(_, _)
ReadFiles(items, files) ==
    IF Len(files) = 0 THEN [items |-> items, err |-> <<>>]
    ELSE LET r == ReadElements(items, Split(Head(files).content, <<>>))
         IN  IF r.err # <<>> THEN r ELSE ReadFiles(r.items, Tail(files))

\* the legacy set read from the files of dir, or nil and the error
ReadLegacyObjectsFromDirectory(dir) ==
    LET r == ReadFiles(<<>>, ReadDir(dir))
    IN  IF r.err # <<>> THEN [objects |-> <<>>, err |-> r.err]
        ELSE [objects |-> <<r.items>>, err |-> <<>>]

(***************************************************************************)
(* A legacy set printed to a directory and read back from it               *)
(***************************************************************************)
EmptyStore ==
    [AddressPool |-> {}, IPAddressPool |-> {}, BGPAdvertisement |-> {},
     L2Advertisement |-> {}]

ReadDirEvent(result) ==
    [op |-> "ReadDir", kind |-> "AddressPool", namespace |-> "", name |-> "",
     result |-> result]

\* a legacy set as read from the live store, about to be printed
InitRoundTrip ==
    /\ \E legacy \in LegacyStores : store = [EmptyStore EXCEPT !["AddressPool"] = legacy]
    /\ legacyObjects = ReadLegacyObjectsFromAPI(store, BackupLimit)
    /\ toJSON \in BOOLEAN
    /\ backupDir = {}
    /\ inDir = <<>>
    /\ outDir = <<>>
    /\ stdout = <<>>
    /\ pc = "print"
    /\ currentObjects = <<>>
    /\ idx = 1
    /\ err = <<>>
    /\ initial = store
    /\ log = <<>>

\* legacyObjects.Print(dir, toJSON)
RoundTripPrint ==
    /\ pc = "print"
    /\ \/ /\ Len(legacyObjects) > 0
          /\ pc' = "returned"
          /\ err' = Wrapped("cannot create destination file", "OpenError")
          /\ log' = Append(log, PrintEvent("error"))
          /\ UNCHANGED backupDir
       \/ /\ backupDir' = LegacyPrinted(backupDir, legacyObjects, toJSON)
          /\ log' = Append(log, PrintEvent("ok"))
          /\ pc' = "read"
          /\ UNCHANGED err
    /\ UNCHANGED <<store, inDir, outDir, stdout, toJSON, legacyObjects,
                   currentObjects, idx, initial>>

\* legacyObjects, err := ReadLegacyObjectsFromDirectory(scheme, dir)
RoundTripRead ==
    /\ pc = "read"
    /\ \/ /\ err' = Wrapped("could not read legacy objects from directory", "ReadError")
          /\ legacyObjects' = <<>>
          /\ log' = Append(log, ReadDirEvent("error"))
       \/ LET r == ReadLegacyObjectsFromDirectory(backupDir)
          IN  IF r.err # <<>>
              THEN /\ err' = Wrapped("could not read legacy objects from directory", r.err[1])
                   /\ legacyObjects' = <<>>
                   /\ log' = Append(log, ReadDirEvent("invalid"))
              ELSE /\ err' = <<>>
                   /\ legacyObjects' = r.objects[1]
                   /\ log' = Append(log, ReadDirEvent("ok"))
    /\ pc' = "returned"
    /\ UNCHANGED <<store, backupDir, inDir, outDir, stdout, toJSON,
                   currentObjects, idx, initial>>

NextRoundTrip ==
    \/ RoundTripPrint
    \/ RoundTripRead

SpecRoundTrip == InitRoundTrip /\ [][NextRoundTrip]_vars

(***************************************************************************)
(* OfflineMigration                                                        *)
(***************************************************************************)
\* the legacy sets of the offline runs: at most MaxPools pools
BoundedStores == {T \in LegacyStores : Cardinality(T) <= MaxPools}

\* the directories LegacyObjects.Print leaves behind
BackupDirectories ==
    {LegacyPrinted({}, Listed(T), json) : T \in BoundedStores, json \in BOOLEAN}

\* a document of another resource in the shape of a pool
ForeignDocument(apiVersion, kind) ==
    [PrintedAddressPool(TestPool(PoolNames[1], ProtocolBGP, <<>>))
        EXCEPT !.apiVersion = apiVersion, !.kind = kind]

\* an AddressPoolList document holding two pools
AddressPoolListDocument ==
    [apiVersion |-> metallbAPIVersion, kind |-> "AddressPoolList",
     items |-> <<PrintedAddressPool(TestPool(PoolNames[3], ProtocolLayer2, <<>>)),
                 PrintedAddressPool(TestPool(PoolNames[2], ProtocolBGP, <<AdvA>>))>>]

\* hand-written input files, as the ones of the tests
InputFiles ==
    {[name |-> "bgp-addresspools.yaml",
      content |-> <<Document(ForeignDocument("metallb.io/v1beta2", "AddressPool"))>>],
     [name |-> "bgp-addresspools.yaml",
      content |-> <<Document(ForeignDocument("v1", "ConfigMap"))>>],
     [name |-> "l2-addresspools.yaml",
      content |-> <<Document(ForeignDocument(metallbAPIVersion, "BGPAdvertisement"))>>],
     [name |-> "l2-addresspools.yaml",
      content |-> <<Document(AddressPoolListDocument)>>],
     [name |-> "l2-addresspools.yaml",
      content |-> <<Document(PrintedAddressPool(TestPool(PoolNames[3], ProtocolLayer2, <<>>))),
                    Marker>>]}

\* the directories CurrentObjects.Print leaves behind
CurrentDirectories ==
    {PrintedToDirectory({}, NonEmptyFields(Convert(Listed(T)).objects[1]), json,
                        Len(NonEmptyFields(Convert(Listed(T)).objects[1]))) :
        T \in {U \in BoundedStores :
                  /\ Cardinality(U) <= 1
                  /\ \A q \in U : q.Protocol \in {ProtocolLayer2, ProtocolBGP}},
        json \in BOOLEAN}

\* the input directories of the offline runs
InputDirectories ==
    BackupDirectories
    \cup CurrentDirectories
    \cup {d \cup {f} : d \in {{}, LegacyPrinted({}, <<TestPool(PoolNames[1], ProtocolBGP, <<>>)>>, FALSE)},
                       f \in InputFiles}

\* a file left in the output directory by an earlier run
StaleFile ==
    [name |-> "L2Advertisement.yaml",
     content |-> <<Document(PrintedObject(L2AdvertisementOf(TestPool("stale", ProtocolLayer2, <<>>))))>>]

OutputDirectories == {<<>>, <<{}>>, <<{StaleFile}>>}

\* start of OfflineMigration(c, scheme, inDirFlag, outDirFlag, jsonFlag)
InitOffline ==
    /\ \/ /\ inDir = <<>>
          /\ \E legacy \in BoundedStores :
                store = [EmptyStore EXCEPT !["AddressPool"] = legacy]
       \/ /\ inDir \in {<<d>> : d \in InputDirectories}
          /\ \E legacy \in {{}, {TestPool(PoolNames[1], ProtocolLayer2, <<>>)}} :
                store = [EmptyStore EXCEPT !["AddressPool"] = legacy]
    /\ outDir \in OutputDirectories
    /\ toJSON \in BOOLEAN
    /\ stdout = <<>>
    /\ backupDir = {}
    /\ pc = "retrieve"
    /\ legacyObjects = <<>>
    /\ currentObjects = <<>>
    /\ idx = 1
    /\ err = <<>>
    /\ initial = store
    /\ log = <<>>

StageEvent(op, result) ==
    [op |-> op, kind |-> "", namespace |-> "", name |-> "", result |-> result]

OpenEvent(items, json, result) ==
    [op |-> "Open", kind |-> items[1].Kind, namespace |-> "",
     name |-> CurrentFileName(items, json), result |-> result]

\* the retrieval step
OfflineRetrieve ==
    /\ pc = "retrieve"
    /\ IF inDir = <<>>
       THEN \/ /\ Fail("error during retrieval step", "StoreError")
               /\ log' = Append(log, ListEvent("error"))
               /\ UNCHANGED legacyObjects
            \/ /\ legacyObjects' = ReadLegacyObjectsFromAPI(store, BackupLimit)
               /\ log' = Append(log, ListEvent("ok"))
               /\ pc' = "convert"
               /\ UNCHANGED err
       ELSE \/ /\ Fail("error during retrieval step", "ReadError")
               /\ log' = Append(log, ReadDirEvent("error"))
               /\ UNCHANGED legacyObjects
            \/ LET r == ReadLegacyObjectsFromDirectory(inDir[1])
               IN  IF r.err # <<>>
                   THEN /\ Fail("error during retrieval step", r.err[1])
                        /\ log' = Append(log, ReadDirEvent("invalid"))
                        /\ UNCHANGED legacyObjects
                   ELSE /\ legacyObjects' = r.objects[1]
                        /\ log' = Append(log, ReadDirEvent("ok"))
                        /\ pc' = "convert"
                        /\ UNCHANGED err
    /\ UNCHANGED <<store, backupDir, inDir, outDir, stdout, toJSON,
                   currentObjects, idx, initial>>

\* where OfflineMigration goes after Convert returned err
AfterConvertAlwaysPrints(cause) == "print"
AfterConvert(cause) == IF cause # <<>> THEN "failed" ELSE "print"

\* a conversion step that removes the legacy pools from the store
OfflineConvertDeleting ==
    /\ pc = "convert"
    /\ LET r == Convert(legacyObjects)
       IN  /\ pc' = AfterConvert(r.err)
           /\ err' = IF r.err # <<>>
                     THEN Wrapped("error during conversion step", r.err[1]) ELSE err
           /\ currentObjects' = IF r.err # <<>> THEN currentObjects ELSE r.objects
           /\ store' = IF r.err # <<>> THEN store
                       ELSE [store EXCEPT !["AddressPool"] = {}]
           /\ log' = Append(log, StageEvent("Convert", IF r.err # <<>> THEN "error" ELSE "ok"))
    /\ UNCHANGED <<backupDir, inDir, outDir, stdout, toJSON,
                   legacyObjects, idx, initial>>

\* the conversion step
OfflineConvert ==
    /\ pc = "convert"
    /\ LET r == Convert(legacyObjects)
       IN  /\ pc' = AfterConvert(r.err)
           /\ err' = IF r.err # <<>>
                     THEN Wrapped("error during conversion step", r.err[1]) ELSE err
           /\ currentObjects' = IF r.err # <<>> THEN currentObjects ELSE r.objects
           /\ log' = Append(log, StageEvent("Convert", IF r.err # <<>> THEN "error" ELSE "ok"))
    /\ UNCHANGED <<store, backupDir, inDir, outDir, stdout, toJSON,
                   legacyObjects, idx, initial>>

\* the print step
OfflinePrint ==
    /\ pc = "print"
    /\ LET fields == NonEmptyFields(currentObjects[1])
           opened(n) == [k \in 1..n |-> OpenEvent(fields[k], toJSON, "ok")]
       IN  IF outDir = <<>>
           THEN /\ stdout' = PrintedToStdout(stdout, currentObjects[1], toJSON)
                /\ log' = Append(log, StageEvent("Print", "ok"))
                /\ pc' = "done"
                /\ UNCHANGED <<outDir, err>>
           ELSE \/ \E n \in 0..(Len(fields) - 1) :
                      /\ outDir' = <<PrintedToDirectory(outDir[1], fields, toJSON, n)>>
                      /\ log' = log \o opened(n)
                                    \o <<OpenEvent(fields[n + 1], toJSON, "error"),
                                         StageEvent("Print", "error")>>
                      /\ Fail("error during print step", "OpenError")
                      /\ UNCHANGED stdout
                \/ /\ outDir' = <<PrintedToDirectory(outDir[1], fields, toJSON, Len(fields))>>
                   /\ log' = log \o opened(Len(fields)) \o <<StageEvent("Print", "ok")>>
                   /\ pc' = "done"
                   /\ UNCHANGED <<stdout, err>>
    /\ UNCHANGED <<store, backupDir, inDir, toJSON, legacyObjects,
                   currentObjects, idx, initial>>

NextOffline ==
    \/ OfflineRetrieve
    \/ OfflineConvert
    \/ OfflinePrint

SpecOffline == InitOffline /\ [][NextOffline]_vars

(***************************************************************************)
(* Create and Delete on an object set: one call of one of the four methods *)
(* on a store that holds some of the members                               *)
(***************************************************************************)
\* the order in which CurrentObjects.Delete deletes the members
DeleteOrder(cur) ==
    cur.IPAddressPoolList \o cur.BGPAdvertisementList \o cur.L2AdvertisementList

Methods == {"LegacyObjects.Delete", "LegacyObjects.Create",
            "CurrentObjects.Delete", "CurrentObjects.Create"}

\* the members a method ranges over, in its order
MembersOf(method, legacy, cur) ==
    IF method \in {"LegacyObjects.Delete", "LegacyObjects.Create"} THEN legacy
    ELSE IF method = "CurrentObjects.Create" THEN CreateOrder(cur)
    ELSE DeleteOrder(cur)

\* the resource kind of a member
MemberKind(method, obj) ==
    IF method \in {"LegacyObjects.Delete", "LegacyObjects.Create"}
    THEN "AddressPool" ELSE obj.Kind

\* the context the methods put before the error of the store
ErrorContext(method, kind) ==
    IF method = "LegacyObjects.Delete" THEN "cannot delete legacyObject " \o kind
    ELSE IF method = "LegacyObjects.Create" THEN "cannot create legacyObject " \o kind
    ELSE IF method = "CurrentObjects.Delete" THEN "cannot delete currentObject " \o kind
    ELSE "cannot create currentObject " \o kind

\* the object sets of the calls: the supported pools of a store, at most MaxPools
LifecycleSets ==
    {Listed(S) : S \in {T \in LegacyStores :
                           /\ Cardinality(T) <= MaxPools
                           /\ \A q \in T : q.Protocol \in {ProtocolLayer2, ProtocolBGP}}}

\* a store that holds the members at the positions in `present`
StoreHolding(method, members, present) ==
    [kind \in Kinds |->
        {members[k] : k \in {j \in present : MemberKind(method, members[j]) = kind}}]

\* the positions present before the call: all but one, or only one (0 is none)
Presences(n) ==
    {(1..n) \ {h} : h \in 0..n} \cup {{h} \cap (1..n) : h \in 0..n}

CallEvent(method) ==
    [op |-> "Call", kind |-> method, namespace |-> "", name |-> "", result |-> ""]

\* the method in progress
Method == log[1].kind

InitLifecycle ==
    /\ legacyObjects \in LifecycleSets
    /\ currentObjects = Convert(legacyObjects).objects
    /\ \E method \in Methods :
          /\ log = <<CallEvent(method)>>
          /\ \E present \in Presences(Len(MembersOf(method, legacyObjects, currentObjects[1]))) :
                store = StoreHolding(method,
                                     MembersOf(method, legacyObjects, currentObjects[1]),
                                     present)
    /\ initial = store
    /\ pc = "call"
    /\ idx = 1
    /\ err = <<>>
    /\ backupDir = {}
    /\ inDir = <<>>
    /\ outDir = <<>>
    /\ stdout = <<>>
    /\ toJSON = FALSE

\* return err from inside the loop
AbortIgnored(method, kind, cause) ==
    /\ pc' = pc
    /\ idx' = idx + 1
    /\ err' = err
Abort(method, kind, cause) ==
    /\ pc' = "returned"
    /\ idx' = idx
    /\ err' = Wrapped(ErrorContext(method, kind), cause)

\* does Delete return on this answer of c.Delete
DeleteReturnsOnAnyError(result) == result # "ok"
DeleteReturnsOn(result) == result = "error"

\* one iteration of a Delete loop, or its return nil
DeleteStep ==
    /\ pc = "call"
    /\ Method \in {"LegacyObjects.Delete", "CurrentObjects.Delete"}
    /\ LET members == MembersOf(Method, legacyObjects, currentObjects[1])
       IN  IF idx > Len(members)
           THEN /\ pc' = "returned"
                /\ UNCHANGED <<store, idx, err, log>>
           ELSE LET obj == members[idx]
                    kind == MemberKind(Method, obj)
                    answers == {"error"} \cup
                               {IF Exists(store, kind, obj.Namespace, obj.Name)
                                THEN "ok" ELSE "notfound"}
                IN  \E result \in answers :
                       /\ log' = Append(log, Event("Delete", kind, obj, result))
                       /\ store' = IF result = "ok" THEN Deleted(store, kind, obj) ELSE store
                       /\ IF DeleteReturnsOn(result)
                          THEN Abort(Method, kind,
                                     IF result = "notfound" THEN "NotFound" ELSE "StoreError")
                          ELSE /\ idx' = idx + 1
                               /\ UNCHANGED <<pc, err>>
    /\ UNCHANGED <<backupDir, inDir, outDir, stdout, toJSON, legacyObjects,
                   currentObjects, initial>>

\* one iteration of a Create loop, or its return nil
CreateStep ==
    /\ pc = "call"
    /\ Method \in {"LegacyObjects.Create", "CurrentObjects.Create"}
    /\ LET members == MembersOf(Method, legacyObjects, currentObjects[1])
       IN  IF idx > Len(members)
           THEN /\ pc' = "returned"
                /\ UNCHANGED <<store, idx, err, log>>
           ELSE LET obj == members[idx]
                    kind == MemberKind(Method, obj)
                    answers == {"error"} \cup
                               {IF Exists(store, kind, obj.Namespace, obj.Name)
                                THEN "exists" ELSE "ok"}
                IN  \E result \in answers :
                       /\ log' = Append(log, Event("Create", kind, obj, result))
                       /\ store' = IF result = "ok" THEN Created(store, kind, obj) ELSE store
                       /\ IF result # "ok"
                          THEN Abort(Method, kind,
                                     IF result = "exists" THEN "AlreadyExists" ELSE "StoreError")
                          ELSE /\ idx' = idx + 1
                               /\ UNCHANGED <<pc, err>>
    /\ UNCHANGED <<backupDir, inDir, outDir, stdout, toJSON, legacyObjects,
                   currentObjects, initial>>

NextLifecycle ==
    \/ DeleteStep
    \/ CreateStep

SpecLifecycle == InitLifecycle /\ [][NextLifecycle]_vars

(***************************************************************************)
(* The methods of the two object sets, one call each, with the fields of   *)
(* the receiver as the caller sees them after the call                     *)
(***************************************************************************)
\* the TypeMeta of a pool in memory: empty as the typed client lists it, or
\* filled in as the decoder of a file returns it
TypeMetas ==
    {[Kind |-> "", APIVersion |-> ""],
     [Kind |-> "AddressPool", APIVersion |-> metallbAPIVersion]}

WithTypeMeta(ap, tm) ==
    [Name |-> ap.Name, Namespace |-> ap.Namespace, Protocol |-> ap.Protocol,
     Addresses |-> ap.Addresses, AutoAssign |-> ap.AutoAssign,
     BGPAdvertisements |-> ap.BGPAdvertisements,
     Kind |-> tm.Kind, APIVersion |-> tm.APIVersion]

\* the items after the loop that sets Kind and APIVersion where they are empty
TypeMetaFilled(items) ==
    [k \in DOMAIN items |->
        [items[k] EXCEPT !.Kind = IF @ = "" THEN "AddressPool" ELSE @,
                         !.APIVersion = IF @ = "" THEN metallbAPIVersion ELSE @]]

SetMethods ==
    {"LegacyObjects.Convert", "LegacyObjects.Print", "LegacyObjects.Delete",
     "LegacyObjects.Create", "CurrentObjects.Print", "CurrentObjects.Delete",
     "CurrentObjects.Create"}

OnLegacy(method) ==
    method \in {"LegacyObjects.Convert", "LegacyObjects.Print",
                "LegacyObjects.Delete", "LegacyObjects.Create"}

\* a legacy set in memory and, for the methods of CurrentObjects, the set
\* converted from it; the store holds the members a Delete is about to delete
InitSets ==
    /\ \E T \in BoundedStores, tm \in TypeMetas :
          legacyObjects = [k \in 1..Cardinality(T) |-> WithTypeMeta(Listed(T)[k], tm)]
    /\ \E method \in SetMethods :
          /\ log = <<CallEvent(method)>>
          /\ IF OnLegacy(method)
             THEN currentObjects = <<>>
             ELSE /\ Convert(legacyObjects).err = <<>>
                  /\ currentObjects = Convert(legacyObjects).objects
          /\ store = IF method \in {"LegacyObjects.Delete", "CurrentObjects.Delete"}
                     THEN StoreHolding(method,
                                       MembersOf(method, legacyObjects, currentObjects[1]),
                                       DOMAIN MembersOf(method, legacyObjects, currentObjects[1]))
                     ELSE EmptyStore
          /\ outDir \in IF method = "CurrentObjects.Print" THEN {<<>>, <<{}>>} ELSE {<<>>}
    /\ toJSON \in BOOLEAN
    /\ backupDir = {}
    /\ inDir = <<>>
    /\ stdout = <<>>
    /\ pc = "call"
    /\ idx = 1
    /\ err = <<>>
    /\ initial = store

\* currentObjects, err := legacyObjects.Convert()
SetsConvert ==
    /\ pc = "call"
    /\ Method = "LegacyObjects.Convert"
    /\ LET r == Convert(legacyObjects)
       IN  /\ currentObjects' = r.objects
           /\ err' = r.err
    /\ pc' = "returned"
    /\ UNCHANGED <<store, backupDir, inDir, outDir, stdout, toJSON,
                   legacyObjects, idx, initial, log>>

\* err := legacyObjects.Print(dir, toJSON)
SetsLegacyPrint ==
    /\ pc = "call"
    /\ Method = "LegacyObjects.Print"
    /\ legacyObjects' = IF Len(legacyObjects) = 0 THEN legacyObjects
                        ELSE TypeMetaFilled(legacyObjects)
    /\ \/ /\ Len(legacyObjects) > 0
          /\ err' = Wrapped("cannot create destination file", "OpenError")
          /\ UNCHANGED backupDir
       \/ /\ backupDir' = LegacyPrinted(backupDir, legacyObjects, toJSON)
          /\ UNCHANGED err
    /\ pc' = "returned"
    /\ UNCHANGED <<store, inDir, outDir, stdout, toJSON, currentObjects,
                   idx, initial, log>>

\* err := currentObjects.Print(dir, toJSON)
SetsCurrentPrint ==
    /\ pc = "call"
    /\ Method = "CurrentObjects.Print"
    /\ LET fields == NonEmptyFields(currentObjects[1])
       IN  IF outDir = <<>>
           THEN /\ stdout' = PrintedToStdout(stdout, currentObjects[1], toJSON)
                /\ UNCHANGED <<outDir, err>>
           ELSE \E n \in 0..Len(fields) :
                   /\ outDir' = <<PrintedToDirectory(outDir[1], fields, toJSON, n)>>
                   /\ err' = IF n < Len(fields)
                             THEN Wrapped("cannot create destination file", "OpenError")
                             ELSE err
                   /\ UNCHANGED stdout
    /\ pc' = "returned"
    /\ UNCHANGED <<store, backupDir, inDir, toJSON, legacyObjects,
                   currentObjects, idx, initial, log>>

\* err := set.Delete(c): the first n members deleted, then the return
SetsDelete ==
    /\ pc = "call"
    /\ Method \in {"LegacyObjects.Delete", "CurrentObjects.Delete"}
    /\ LET members == MembersOf(Method, legacyObjects, currentObjects[1])
       IN  \E n \in 0..Len(members) :
              /\ store' = [kind \in Kinds |->
                              store[kind] \ {members[k] : k \in 1..n}]
              /\ err' = IF n < Len(members)
                        THEN Wrapped(ErrorContext(Method, MemberKind(Method, members[n + 1])),
                                     "StoreError")
                        ELSE err
    /\ pc' = "returned"
    /\ UNCHANGED <<backupDir, inDir, outDir, stdout, toJSON, legacyObjects,
                   currentObjects, idx, initial, log>>

\* err := set.Create(c): the first n members created, then the return
SetsCreate ==
    /\ pc = "call"
    /\ Method \in {"LegacyObjects.Create", "CurrentObjects.Create"}
    /\ LET members == MembersOf(Method, legacyObjects, currentObjects[1])
       IN  \E n \in 0..Len(members) :
              /\ store' = [kind \in Kinds |->
                              store[kind] \cup
                              {members[k] : k \in {j \in 1..n :
                                  MemberKind(Method, members[j]) = kind}}]
              /\ err' = IF n < Len(members)
                        THEN Wrapped(ErrorContext(Method, MemberKind(Method, members[n + 1])),
                                     "StoreError")
                        ELSE err
    /\ pc' = "returned"
    /\ UNCHANGED <<backupDir, inDir, outDir, stdout, toJSON, legacyObjects,
                   currentObjects, idx, initial, log>>

NextSets ==
    \/ SetsConvert
    \/ SetsLegacyPrint
    \/ SetsCurrentPrint
    \/ SetsDelete
    \/ SetsCreate

SpecSets == InitSets /\ [][NextSets]_vars

(***************************************************************************)
(* Vocabulary of the properties                                            *)
(***************************************************************************)
Range(seq) == {seq[i] : i \in DOMAIN seq}

Supported(ap) == ap.Protocol \in {ProtocolLayer2, ProtocolBGP}

CreationStage == "online migration failed during current object creation"

\* the number of BGPAdvertisements a pool is entitled to
AdvCount(ap) ==
    IF ap.Protocol # ProtocolBGP THEN 0
    ELSE IF Len(ap.BGPAdvertisements) = 0 THEN 1 ELSE Len(ap.BGPAdvertisements)

\* the number of BGPAdvertisements the pools before position k are entitled to
RECURSIVE AdvOffset(_, _)
AdvOffset(items, k) ==
    IF k <= 1 THEN 0 ELSE AdvOffset(items, k - 1) + AdvCount(items[k - 1])

\* the number of layer2 pools up to position k
RECURSIVE L2Offset(_, _)
L2Offset(items, k) ==
    IF k < 1 THEN 0
    ELSE L2Offset(items, k - 1) + (IF items[k].Protocol = ProtocolLayer2 THEN 1 ELSE 0)

\* the part of a BGPAdvertisement list that belongs to the pool at position k
Segment(bal, items, k) ==
    SubSeq(bal, AdvOffset(items, k) + 1, AdvOffset(items, k) + AdvCount(items[k]))

\* no other pool of the list has the namespace and name of the pool at k
UniqueKey(items, k) ==
    \A j \in DOMAIN items :
        j # k => ~(items[j].Namespace = items[k].Namespace /\ items[j].Name = items[k].Name)

\* decimal numerals of the indexes in use
Numerals == <<"0", "1", "2", "3", "4">>

\* Convert has returned a CurrentObjects for an input of supported pools
Converted ==
    /\ pc = "returned"
    /\ \A k \in DOMAIN legacyObjects : Supported(legacyObjects[k])

(***************************************************************************)
(* C1                                                                      *)
(***************************************************************************)
\* C1 (as stated): when the delete of a legacy pool succeeded and the create
\* of its fragment failed, the pool exists in neither schema: the store holds
\* neither the AddressPool nor an IPAddressPool of that pool.
C1_NeitherSchema ==
    (/\ pc = "failed"
     /\ err[1].stage = CreationStage
     /\ ~Exists(initial, "IPAddressPool", legacyObjects[1].Namespace, legacyObjects[1].Name))
    => /\ ~Exists(store, "AddressPool", legacyObjects[1].Namespace, legacyObjects[1].Name)
       /\ ~Exists(store, "IPAddressPool", legacyObjects[1].Namespace, legacyObjects[1].Name)

\* C1 (amended): when the delete of a legacy pool succeeded and the create of
\* its fragment failed, the legacy pool is gone from the store and the fragment
\* is absent or only partly created: the members posted before the failing one
\* stay in the store (no rollback), the failed create is the last call issued
\* (immediate abort, no retry), and the error returned wraps the error of that
\* call.
C1_DeleteThenCreateFails ==
    (pc = "failed" /\ err[1].stage = CreationStage)
    => LET ap == legacyObjects[1]
           members == CreateOrder(currentObjects[1])
           last == log[Len(log)]
       IN  /\ ~Exists(store, "AddressPool", ap.Namespace, ap.Name)
           /\ idx \in 1..Len(members)
           /\ \A k \in 1..(idx - 1) : members[k] \in store[members[k].Kind]
           /\ last.op = "Create"
           /\ last.kind = members[idx].Kind
           /\ last.name = members[idx].Name
           /\ last.result \in {"error", "exists"}
           /\ last.result = "error" =>
                 members[idx] \notin (store[members[idx].Kind] \ initial[members[idx].Kind])
           /\ err[1].cause = (IF last.result = "exists" THEN "AlreadyExists" ELSE "StoreError")

\* a create failed after the IPAddressPool of the deleted pool was posted
C1_Witness ==
    /\ pc = "failed"
    /\ err[1].stage = CreationStage
    /\ idx > 1
    /\ Exists(store, "IPAddressPool", legacyObjects[1].Namespace, legacyObjects[1].Name)
    /\ ~Exists(store, "AddressPool", legacyObjects[1].Namespace, legacyObjects[1].Name)

(***************************************************************************)
(* C2                                                                      *)
(***************************************************************************)
\* the (pool, index) pairs of the BGPAdvertisements a pool set is entitled to
AdvPairs(pools) ==
    UNION {{<<p.Namespace, p.Name, i>> : i \in 1..AdvCount(p)} : p \in pools}

\* C2: an online migration that ends without error, started on a store with a
\* set S of legacy pools and no current-schema objects, leaves no legacy pool
\* and exactly the resources of Convert(S): one IPAddressPool per pool, one
\* L2Advertisement per layer2 pool, one BGPAdvertisement per advertisement
\* entry of each bgp pool (one for a bgp pool without entries).
C2_MigratedAll ==
    (/\ pc = "done"
     /\ initial["IPAddressPool"] = {})
    => LET S == initial["AddressPool"]
           r == Convert(Listed(S))
       IN  /\ r.err = <<>>
           /\ store["AddressPool"] = {}
           /\ store["IPAddressPool"] = Range(r.objects[1].IPAddressPoolList)
           /\ store["L2Advertisement"] = Range(r.objects[1].L2AdvertisementList)
           /\ store["BGPAdvertisement"] = Range(r.objects[1].BGPAdvertisementList)
           /\ Cardinality(store["IPAddressPool"]) = Cardinality(S)
           /\ Cardinality(store["L2Advertisement"]) =
                 Cardinality({p \in S : p.Protocol = ProtocolLayer2})
           /\ Cardinality(store["BGPAdvertisement"]) = Cardinality(AdvPairs(S))

\* the run of the test: a layer2 pool, a bgp pool with two entries, a bgp pool
\* with none, migrated to 3 + 1 + 3 resources
C2_Witness ==
    /\ pc = "done"
    /\ initial["IPAddressPool"] = {}
    /\ Cardinality(initial["AddressPool"]) = 3
    /\ \E p \in initial["AddressPool"] :
          p.Protocol = ProtocolBGP /\ Len(p.BGPAdvertisements) = 0
    /\ store["AddressPool"] = {}
    /\ Cardinality(store["IPAddressPool"]) = 3
    /\ Cardinality(store["L2Advertisement"]) = 1
    /\ Cardinality(store["BGPAdvertisement"]) = 3

(***************************************************************************)
(* C3                                                                      *)
(***************************************************************************)
\* the documents of a file, in order, its boundary markers left out
DocsOf(content) ==
    LET at == {i \in DOMAIN content : content[i] # Marker}
        nth(k) == CHOOSE i \in at : Cardinality({j \in at : j < i}) = k - 1
    IN  [k \in 1..Cardinality(at) |-> content[nth(k)][1]]

\* is f the backup of a legacy pool set: one document per pool, in key order
FullBackup(f, pools, json) ==
    LET all == Listed(pools)
    IN  /\ f.name = LegacyFileName(json)
        /\ DocsOf(f.content) = [k \in 1..Len(all) |-> PrintedAddressPool(all[k])]

\* C3: the backup of the whole legacy pool set is written before the loop
\* issues its first delete, and after a successful run it holds a copy of every
\* original pool.
C3_BackupBeforeDelete ==
    /\ \A i \in DOMAIN log :
          log[i].op = "Delete" =>
             \E j \in 1..(i - 1) : log[j].op = "Print" /\ log[j].result = "ok"
    /\ ((\E i \in DOMAIN log : log[i].op = "Delete")
           \/ (pc = "done" /\ initial["AddressPool"] # {}))
       => /\ Cardinality(backupDir) = 1
          /\ \A f \in backupDir : FullBackup(f, initial["AddressPool"], toJSON)

\* a successful run over three pools, its backup holding three documents
C3_Witness ==
    /\ pc = "done"
    /\ Cardinality(initial["AddressPool"]) = 3
    /\ \E i \in DOMAIN log : log[i].op = "Delete"
    /\ \E f \in backupDir : Len(DocsOf(f.content)) = 3

(***************************************************************************)
(* C4                                                                      *)
(***************************************************************************)
\* C4 (as stated): when a legacy pool of the store has an unsupported protocol,
\* online migration leaves the store unmodified and attempts no delete and no
\* create for any pool.
C4_UnsupportedLeavesStore ==
    (\E p \in initial["AddressPool"] : ~Supported(p))
    => /\ store = initial
       /\ \A i \in DOMAIN log : log[i].op \notin {"Delete", "Create"}

(***************************************************************************)
(* C5                                                                      *)
(***************************************************************************)
\* C5: when any pool of the input has a protocol other than layer2 or bgp,
\* Convert returns an error and no CurrentObjects at all, also when earlier
\* pools of the list were converted, and it touches no store and no file.
C5_ConvertFailureTotal ==
    (/\ pc = "returned"
     /\ \E k \in DOMAIN legacyObjects : ~Supported(legacyObjects[k]))
    => /\ err # <<>>
       /\ currentObjects = <<>>
       /\ store = initial
       /\ backupDir = {}
       /\ log = <<>>

\* Convert returned for a list whose first pool is supported and second is not
C5_Witness ==
    /\ pc = "returned"
    /\ Len(legacyObjects) = 2
    /\ Supported(legacyObjects[1])
    /\ ~Supported(legacyObjects[2])
    /\ err # <<>>

(***************************************************************************)
(* C6                                                                      *)
(***************************************************************************)
\* C6: for every input of supported pools, the empty one included, Convert
\* returns as many IPAddressPools as there are legacy pools, the i-th with the
\* name, namespace, addresses and autoAssign of the i-th legacy pool.
C6_PoolProjection ==
    Converted
    => /\ err = <<>>
       /\ Len(currentObjects) = 1
       /\ Len(currentObjects[1].IPAddressPoolList) = Len(legacyObjects)
       /\ \A i \in DOMAIN legacyObjects :
             LET iap == currentObjects[1].IPAddressPoolList[i]
                 ap == legacyObjects[i]
             IN  /\ iap.Kind = "IPAddressPool"
                 /\ iap.Name = ap.Name
                 /\ iap.Namespace = ap.Namespace
                 /\ iap.Addresses = ap.Addresses
                 /\ iap.AutoAssign = ap.AutoAssign

\* Convert returned for two supported pools that differ in every projected field
C6_Witness ==
    /\ Converted
    /\ Len(legacyObjects) = 2
    /\ legacyObjects[1].Protocol = ProtocolLayer2
    /\ legacyObjects[2].Protocol = ProtocolBGP
    /\ legacyObjects[1].Namespace # legacyObjects[2].Namespace
    /\ legacyObjects[1].Addresses # legacyObjects[2].Addresses
    /\ legacyObjects[1].AutoAssign # legacyObjects[2].AutoAssign
    /\ Len(currentObjects[1].IPAddressPoolList) = 2

(***************************************************************************)
(* C7                                                                      *)
(***************************************************************************)
\* C7: every bgp pool without advertisement entries yields exactly one
\* BGPAdvertisement, with empty communities, absent aggregation lengths,
\* localPref 0 and ipAddressPools holding only the name of that pool.
C7_SynthesizedAdvertisement ==
    Converted
    => LET bal == currentObjects[1].BGPAdvertisementList
       IN  /\ Len(bal) = AdvOffset(legacyObjects, Len(legacyObjects) + 1)
           /\ \A k \in DOMAIN legacyObjects :
                 (/\ legacyObjects[k].Protocol = ProtocolBGP
                  /\ Len(legacyObjects[k].BGPAdvertisements) = 0)
                 => LET seg == Segment(bal, legacyObjects, k)
                    IN  /\ Len(seg) = 1
                        /\ seg[1].Kind = "BGPAdvertisement"
                        /\ seg[1].Namespace = legacyObjects[k].Namespace
                        /\ seg[1].Communities = <<>>
                        /\ seg[1].AggregationLength = <<>>
                        /\ seg[1].AggregationLengthV6 = <<>>
                        /\ seg[1].LocalPref = 0
                        /\ seg[1].IPAddressPools = <<legacyObjects[k].Name>>
                        /\ UniqueKey(legacyObjects, k) =>
                              Cardinality({j \in DOMAIN bal :
                                  /\ bal[j].Namespace = legacyObjects[k].Namespace
                                  /\ bal[j].IPAddressPools = <<legacyObjects[k].Name>>}) = 1

\* Convert returned for a list that holds a bgp pool without entries after a
\* bgp pool with entries
C7_Witness ==
    /\ Converted
    /\ Len(legacyObjects) = 2
    /\ legacyObjects[1].Protocol = ProtocolBGP
    /\ Len(legacyObjects[1].BGPAdvertisements) = 2
    /\ legacyObjects[2].Protocol = ProtocolBGP
    /\ Len(legacyObjects[2].BGPAdvertisements) = 0
    /\ Len(currentObjects[1].BGPAdvertisementList) = 3

(***************************************************************************)
(* C8                                                                      *)
(***************************************************************************)
\* C8: every bgp pool with n >= 1 advertisement entries yields exactly n
\* BGPAdvertisements, the k-th copying the aggregation lengths (an absent one
\* stays absent), localPref and communities of the k-th entry and listing only
\* that pool; pools with identical entries still yield separate
\* BGPAdvertisements.
C8_AdvertisementCopy ==
    Converted
    => LET bal == currentObjects[1].BGPAdvertisementList
       IN  /\ Len(bal) = AdvOffset(legacyObjects, Len(legacyObjects) + 1)
           /\ \A k \in DOMAIN legacyObjects :
                 (/\ legacyObjects[k].Protocol = ProtocolBGP
                  /\ Len(legacyObjects[k].BGPAdvertisements) >= 1)
                 => LET seg == Segment(bal, legacyObjects, k)
                        advs == legacyObjects[k].BGPAdvertisements
                    IN  /\ Len(seg) = Len(advs)
                        /\ \A j \in DOMAIN advs :
                              /\ seg[j].Kind = "BGPAdvertisement"
                              /\ seg[j].Namespace = legacyObjects[k].Namespace
                              /\ seg[j].AggregationLength = advs[j].AggregationLength
                              /\ seg[j].AggregationLengthV6 = advs[j].AggregationLengthV6
                              /\ seg[j].LocalPref = advs[j].LocalPref
                              /\ seg[j].Communities = advs[j].Communities
                              /\ seg[j].IPAddressPools = <<legacyObjects[k].Name>>

\* Convert returned for two bgp pools with the same single entry, whose
\* aggregationLength is absent: two BGPAdvertisements, the length still absent
C8_Witness ==
    /\ Converted
    /\ Len(legacyObjects) = 2
    /\ legacyObjects[1].Protocol = ProtocolBGP
    /\ legacyObjects[2].Protocol = ProtocolBGP
    /\ legacyObjects[1].BGPAdvertisements = <<AdvB>>
    /\ legacyObjects[2].BGPAdvertisements = <<AdvB>>
    /\ Len(currentObjects[1].BGPAdvertisementList) = 2
    /\ currentObjects[1].BGPAdvertisementList[2].AggregationLength = <<>>

(***************************************************************************)
(* C9                                                                      *)
(***************************************************************************)
\* C9: every layer2 pool yields exactly one L2Advertisement, named
\* <poolName>-l2-advertisement and listing exactly that pool, and yields no
\* BGPAdvertisement, even when the pool carries bgpAdvertisements entries.
C9_Layer2Advertisement ==
    Converted
    => LET l2al == currentObjects[1].L2AdvertisementList
           bal == currentObjects[1].BGPAdvertisementList
       IN  /\ Len(l2al) = L2Offset(legacyObjects, Len(legacyObjects))
           /\ Len(bal) = AdvOffset(legacyObjects, Len(legacyObjects) + 1)
           /\ \A k \in DOMAIN legacyObjects :
                 legacyObjects[k].Protocol = ProtocolLayer2
                 => LET l2a == l2al[L2Offset(legacyObjects, k)]
                    IN  /\ l2a.Kind = "L2Advertisement"
                        /\ l2a.Name = legacyObjects[k].Name \o "-l2-advertisement"
                        /\ l2a.Namespace = legacyObjects[k].Namespace
                        /\ l2a.IPAddressPools = <<legacyObjects[k].Name>>
                        /\ Len(Segment(bal, legacyObjects, k)) = 0
                        /\ UniqueKey(legacyObjects, k) =>
                              /\ Cardinality({j \in DOMAIN l2al :
                                    /\ l2al[j].Namespace = legacyObjects[k].Namespace
                                    /\ l2al[j].IPAddressPools = <<legacyObjects[k].Name>>}) = 1
                              /\ \A j \in DOMAIN bal :
                                    ~(/\ bal[j].Namespace = legacyObjects[k].Namespace
                                      /\ bal[j].IPAddressPools = <<legacyObjects[k].Name>>)

\* Convert returned for a bgp pool followed by a layer2 pool that carries
\* bgpAdvertisements entries
C9_Witness ==
    /\ Converted
    /\ Len(legacyObjects) = 2
    /\ legacyObjects[1].Protocol = ProtocolBGP
    /\ legacyObjects[2].Protocol = ProtocolLayer2
    /\ Len(legacyObjects[2].BGPAdvertisements) >= 1
    /\ Len(currentObjects[1].L2AdvertisementList) = 1
    /\ currentObjects[1].L2AdvertisementList[1].Name = "ap-l2-l2-advertisement"

RECURSIVE Layer2Keys(_)
Layer2Keys(items) ==
    IF Len(items) = 0 THEN <<>>
    ELSE (IF Head(items).Protocol = ProtocolLayer2
          THEN <<<<Head(items).Namespace, Head(items).Name>>>> ELSE <<>>)
         \o Layer2Keys(Tail(items))

\* the advertisement entries of the bgp pools of a list, each with the key of
\* its pool, in list order and in entry order within a pool
RECURSIVE BgpEntries(_)
BgpEntries(items) ==
    IF Len(items) = 0 THEN <<>>
    ELSE (IF Head(items).Protocol = ProtocolBGP
          THEN LET advs == IF Len(Head(items).BGPAdvertisements) = 0
                           THEN <<ZeroLegacyBgpAdvertisement>>
                           ELSE Head(items).BGPAdvertisements
               IN  [j \in DOMAIN advs |->
                      <<Head(items).Namespace, Head(items).Name,
                        advs[j].LocalPref, advs[j].Communities>>]
          ELSE <<>>)
         \o BgpEntries(Tail(items))

\* C11: the collections returned by Convert keep input order: IPAddressPools
\* and L2Advertisements in the order of their pools, BGPAdvertisements in pool
\* order and, within a pool, in the order of its advertisement entries.
C11_InputOrder ==
    Converted
    => LET cur == currentObjects[1]
       IN  /\ [i \in DOMAIN cur.IPAddressPoolList |->
                  <<cur.IPAddressPoolList[i].Namespace, cur.IPAddressPoolList[i].Name>>]
              = [i \in DOMAIN legacyObjects |->
                  <<legacyObjects[i].Namespace, legacyObjects[i].Name>>]
           /\ [i \in DOMAIN cur.L2AdvertisementList |->
                  <<cur.L2AdvertisementList[i].Namespace,
                    cur.L2AdvertisementList[i].IPAddressPools[1]>>]
              = Layer2Keys(legacyObjects)
           /\ [i \in DOMAIN cur.BGPAdvertisementList |->
                  <<cur.BGPAdvertisementList[i].Namespace,
                    cur.BGPAdvertisementList[i].IPAddressPools[1],
                    cur.BGPAdvertisementList[i].LocalPref,
                    cur.BGPAdvertisementList[i].Communities>>]
              = BgpEntries(legacyObjects)

\* Convert returned for two bgp pools given against key order, the second with
\* two different entries: the advertisements follow the input, not the keys
C11_Witness ==
    /\ Converted
    /\ Len(legacyObjects) = 2
    /\ legacyObjects[1].Name = PoolNames[3]
    /\ legacyObjects[1].BGPAdvertisements = <<AdvB>>
    /\ legacyObjects[2].Name = PoolNames[1]
    /\ legacyObjects[2].BGPAdvertisements = <<AdvA, AdvB>>
    /\ legacyObjects[1].Protocol = ProtocolBGP
    /\ legacyObjects[2].Protocol = ProtocolBGP
    /\ Len(currentObjects[1].BGPAdvertisementList) = 3
    /\ currentObjects[1].BGPAdvertisementList[1].IPAddressPools = <<PoolNames[3]>>
    /\ currentObjects[1].BGPAdvertisementList[2].LocalPref = AdvA.LocalPref
    /\ currentObjects[1].BGPAdvertisementList[3].LocalPref = AdvB.LocalPref

\* the store calls made by the method in progress, and its members
StoreCalls == Tail(log)
Members == MembersOf(Method, legacyObjects, currentObjects[1])

\* the store after the first `done` members were added to (removed from) it
WithMembers(st, done) ==
    [kind \in Kinds |->
        st[kind] \cup {Members[k] : k \in {j \in 1..done : MemberKind(Method, Members[j]) = kind}}]
WithoutMembers(st, done) ==
    [kind \in Kinds |->
        st[kind] \ {Members[k] : k \in {j \in 1..done : MemberKind(Method, Members[j]) = kind}}]

\* C12: Create on an object set creates the members one by one in order and
\* stops at the first failure of the store, returning that error: the members
\* created before stay in the store (no rollback), the members after the
\* failing one are never attempted.
C12_CreateStopsAtFirstFailure ==
    Method \in {"LegacyObjects.Create", "CurrentObjects.Create"}
    => LET n == Len(StoreCalls)
           failed == n > 0 /\ StoreCalls[n].result # "ok"
           done == IF failed THEN n - 1 ELSE n
       IN  /\ n <= Len(Members)
           /\ \A k \in 1..n :
                 StoreCalls[k] = Event("Create", MemberKind(Method, Members[k]),
                                       Members[k], StoreCalls[k].result)
           /\ \A k \in 1..(n - 1) : StoreCalls[k].result = "ok"
           /\ failed
              => /\ pc = "returned"
                 /\ err = Wrapped(ErrorContext(Method, MemberKind(Method, Members[n])),
                                  IF StoreCalls[n].result = "exists"
                                  THEN "AlreadyExists" ELSE "StoreError")
           /\ (pc = "returned" /\ err # <<>>) => failed
           /\ (pc = "returned" /\ err = <<>>) => n = Len(Members)
           /\ store = WithMembers(initial, done)

\* CurrentObjects.Create returned the error of the store after it had created
\* at least one member and before it reached the last one
C12_Witness ==
    /\ Method = "CurrentObjects.Create"
    /\ pc = "returned"
    /\ err # <<>>
    /\ err[1].cause = "StoreError"
    /\ Len(StoreCalls) >= 2
    /\ Len(StoreCalls) < Len(Members)
    /\ store # initial

\* C13: Delete takes the answer "not found" as success and goes on, so that
\* deleting a set whose members are all absent returns no error and leaves the
\* store as it was; any other failure ends Delete at once, with the members
\* handled so far absent and the remaining ones as they were.
C13_DeleteToleratesNotFound ==
    Method \in {"LegacyObjects.Delete", "CurrentObjects.Delete"}
    => LET n == Len(StoreCalls)
           failed == n > 0 /\ StoreCalls[n].result = "error"
           done == IF failed THEN n - 1 ELSE n
           absent(k) == ~Exists(initial, MemberKind(Method, Members[k]),
                                Members[k].Namespace, Members[k].Name)
       IN  /\ n <= Len(Members)
           /\ \A k \in 1..n :
                 StoreCalls[k] = Event("Delete", MemberKind(Method, Members[k]),
                                       Members[k], StoreCalls[k].result)
           /\ \A k \in 1..done : StoreCalls[k].result = IF absent(k) THEN "notfound" ELSE "ok"
           /\ failed
              => /\ pc = "returned"
                 /\ err = Wrapped(ErrorContext(Method, MemberKind(Method, Members[n])),
                                  "StoreError")
           /\ (pc = "returned" /\ err # <<>>) => failed
           /\ (pc = "returned" /\ err = <<>>) => n = Len(Members)
           /\ store = WithoutMembers(initial, done)
           /\ (pc = "returned" /\ ~failed /\ \A k \in DOMAIN Members : absent(k))
              => /\ err = <<>>
                 /\ store = initial

\* CurrentObjects.Delete found its first member absent, went on to delete the
\* second, and returned the error of the store at the third of four or more
C13_Witness ==
    /\ Method = "CurrentObjects.Delete"
    /\ pc = "returned"
    /\ err # <<>>
    /\ Len(StoreCalls) = 3
    /\ StoreCalls[1].result = "notfound"
    /\ StoreCalls[2].result = "ok"
    /\ StoreCalls[3].result = "error"
    /\ Len(Members) > 3
    /\ \E k \in 4..Len(Members) :
          Exists(store, MemberKind(Method, Members[k]), Members[k].Namespace, Members[k].Name)

\* C15: a legacy set printed to a directory and read back with the directory
\* reader gives the same pools in the same order with the same field values,
\* for every legacy set and for both output formats.
C15_RoundTrip ==
    (/\ pc = "returned"
     /\ Len(log) = 2
     /\ log[1] = PrintEvent("ok")
     /\ log[2].result # "error")
    => /\ err = <<>>
       /\ legacyObjects = ReadLegacyObjectsFromAPI(initial, BackupLimit)

\* the round trip of a set in YAML, and of a set of at most one pool in JSON
C15_RoundTripOneDocumentPerElement ==
    (/\ pc = "returned"
     /\ Len(log) = 2
     /\ log[1] = PrintEvent("ok")
     /\ log[2].result # "error"
     /\ (toJSON => Cardinality(initial["AddressPool"]) <= 1))
    => /\ err = <<>>
       /\ legacyObjects = ReadLegacyObjectsFromAPI(initial, BackupLimit)

\* the events of one op in the log, in order
EventsOf(op) == SelectSeq(log, LAMBDA e : e.op = op)

\* the three collections of an object set with the kind of their members
Collections(cur) ==
    {[kind |-> "IPAddressPool", items |-> cur.IPAddressPoolList],
     [kind |-> "L2Advertisement", items |-> cur.L2AdvertisementList],
     [kind |-> "BGPAdvertisement", items |-> cur.BGPAdvertisementList]}

DocumentsIn(dir) ==
    UNION {{f.content[i][1] : i \in {j \in DOMAIN f.content : f.content[j] # Marker}} :
              f \in dir}

\* a document the directory reader does not take as a legacy pool
NotLegacy(doc) ==
    \/ ParseGroupVersion(doc.apiVersion).Group # "metallb.io"
    \/ ParseGroupVersion(doc.apiVersion).Version # "v1beta1"
    \/ doc.kind \notin {"AddressPool", "AddressPoolList"}

\* C16: the directory reader fails the whole read, with an error and no
\* partial set, when any document has another group, another version or a kind
\* other than AddressPool and AddressPoolList; so a directory of printed
\* current-schema resources is not read as a legacy source.
C16_ForeignDocumentFailsRead ==
    (/\ inDir # <<>>
     /\ Len(log) >= 1
     /\ log[1].result # "error")
    => /\ (\E doc \in DocumentsIn(inDir[1]) : NotLegacy(doc))
          => /\ pc = "failed"
             /\ Len(log) = 1
             /\ err # <<>>
             /\ err[1].stage = "error during retrieval step"
             /\ legacyObjects = <<>>
             /\ currentObjects = <<>>
       /\ (inDir[1] \in CurrentDirectories /\ inDir[1] # {})
          => /\ pc = "failed"
             /\ legacyObjects = <<>>

\* the read of a directory whose first file holds a legacy pool and whose
\* second file holds a BGPAdvertisement failed and returned no pool
C16_Witness ==
    /\ inDir # <<>>
    /\ Cardinality(inDir[1]) = 2
    /\ \E f \in inDir[1] :
          /\ f.name = "AddressPool.yaml"
          /\ \A doc \in DocumentsIn({f}) : ~NotLegacy(doc)
    /\ \E f \in inDir[1] :
          /\ f.name = "l2-addresspools.yaml"
          /\ \E doc \in DocumentsIn({f}) : doc.kind = "BGPAdvertisement"
    /\ pc = "failed"
    /\ log = <<ReadDirEvent("invalid")>>
    /\ legacyObjects = <<>>

\* the stages of the offline run in the log
Stages ==
    SelectSeq(log, LAMBDA e : e.op \in {"List", "ReadDir", "Convert", "Print"})
StageOf(e) == IF e.op \in {"List", "ReadDir"} THEN "Retrieve" ELSE e.op

\* C17: the offline migration runs retrieval, conversion and print once each
\* in this order and ends at the first stage that fails; when retrieval or
\* conversion fails the print step never runs and nothing is written to stdout
\* or to the target directory.
C17_StagesInOrder ==
    LET n == Len(Stages)
        order == <<"Retrieve", "Convert", "Print">>
        step == <<"error during retrieval step", "error during conversion step",
                  "error during print step">>
    IN  /\ n <= 3
        /\ \A k \in 1..n : StageOf(Stages[k]) = order[k]
        /\ \A k \in 1..(n - 1) : Stages[k].result = "ok"
        /\ (n > 0 /\ Stages[n].result # "ok")
           => /\ pc = "failed"
              /\ err # <<>>
              /\ err[1].stage = step[n]
        /\ pc = "failed" => (n > 0 /\ Stages[n].result # "ok")
        /\ pc = "done" => n = 3
        /\ n < 3
           => /\ stdout = <<>>
              /\ outDir \in OutputDirectories
              /\ Len(EventsOf("Open")) = 0
        /\ (inDir = <<>>) => \A k \in 1..n : Stages[k].op # "ReadDir"
        /\ (inDir # <<>>) => \A k \in 1..n : Stages[k].op # "List"

\* a run from an input directory to an output directory that ended in the
\* conversion step: nothing was printed and the output directory is as before
C17_Witness ==
    /\ pc = "failed"
    /\ inDir # <<>>
    /\ outDir = <<{StaleFile}>>
    /\ Len(Stages) = 2
    /\ Stages[2] = StageEvent("Convert", "error")
    /\ Len(legacyObjects) = 2
    /\ stdout = <<>>

\* the online run has returned or exited
Terminated == pc \in {"done", "failed", "fatal"}

\* no call of the store or of the file system has failed so far
NoStoreFailure == \A k \in DOMAIN log : log[k].result = "ok"

\* the fetches of the loop: the List calls after the one that feeds the backup
LoopFetches == Len(EventsOf("List")) - 1

\* N iterations, each deleting one pool, and a last fetch that found none
RanOncePerPool ==
    LET N == Cardinality(initial["AddressPool"])
        deletes == EventsOf("Delete")
    IN  /\ pc = "done"
        /\ LoopFetches = N + 1
        /\ Len(deletes) = N
        /\ \A k \in DOMAIN deletes : deletes[k].result = "ok"
        /\ {<<deletes[k].namespace, deletes[k].name>> : k \in DOMAIN deletes}
           = {<<q.Namespace, q.Name>> : q \in initial["AddressPool"]}
        /\ store["AddressPool"] = {}

FragmentOf(ap) ==
    LET r == Convert(<<ap>>)
    IN  IF r.err # <<>> THEN <<>> ELSE CreateOrder(r.objects[1])

FragmentComplete(ap) ==
    /\ Supported(ap)
    /\ LET members == FragmentOf(ap)
       IN  \A k \in DOMAIN members : members[k] \in store[members[k].Kind]

\* the pool is no longer in the legacy schema
Gone(ap) == ~Exists(store, "AddressPool", ap.Namespace, ap.Name)

Migrated(ap) == Gone(ap) /\ FragmentComplete(ap)

\* the pool is in the store as it was, and nothing of its fragment was added
Untouched(ap) ==
    /\ ap \in store["AddressPool"]
    /\ LET members == FragmentOf(ap)
       IN  \A k \in DOMAIN members :
              members[k] \in store[members[k].Kind]
              => members[k] \in initial[members[k].Kind]

\* the original pools deleted from the legacy schema whose fragment is missing
\* or only partly created
InFlight == {ap \in initial["AddressPool"] : Gone(ap) /\ ~FragmentComplete(ap)}

\* C19: the online migration handles the pools strictly one at a time: a fetch
\* is issued only after the create of the previous fragment has finished, an
\* iteration works on one pool, and in every state at most one original pool
\* is deleted from the legacy schema while its fragment is missing or only
\* partly created.
C19_OneAtATime ==
    /\ Cardinality(InFlight) <= 1
    /\ pc \in {"fetch", "done"} => InFlight = {}
    /\ pc \in {"convert", "delete", "create"} => Len(legacyObjects) = 1
    /\ \A k \in 2..Len(log) :
          log[k].op = "List"
          => /\ log[k - 1].result = "ok"
             /\ log[k - 1].op \in {"List", "Print", "Create"}

\* the second of three pools is deleted and its fragment is partly created,
\* while the first is fully migrated and the third is still a legacy pool
C19_Witness ==
    /\ pc = "create"
    /\ idx >= 2
    /\ Cardinality(initial["AddressPool"]) = 3
    /\ Cardinality(InFlight) = 1
    /\ \E ap \in initial["AddressPool"] : Migrated(ap)
    /\ Cardinality(store["AddressPool"]) = 1

\* C20: wherever an online run stops (a failure of conversion, delete or
\* create, or a termination from outside at any moment), the pools handled in
\* earlier iterations are fully migrated and the pools not yet fetched are in
\* the store in legacy form as they were; only the pool of the iteration in
\* progress may be in between.
C20_EarlierMigratedLaterUntouched ==
    LET order == Listed(initial["AddressPool"])
        migrated == {i \in DOMAIN order : Migrated(order[i])}
        k == Cardinality(migrated)
    IN  /\ migrated = 1..k
        /\ \A i \in (k + 2)..Len(order) : Untouched(order[i])
        /\ k < Len(order)
           => \/ Untouched(order[k + 1])
              \/ /\ legacyObjects = <<order[k + 1]>>
                 /\ pc \in {"convert", "delete", "create", "failed"}

\* a run over three pools that stopped in the create of the second one: the
\* first is migrated, the second is gone with a part of its fragment, the
\* third is untouched
C20_Witness ==
    /\ pc = "failed"
    /\ err # <<>>
    /\ err[1].stage = CreationStage
    /\ err[1].cause = "StoreError"
    /\ Cardinality(initial["AddressPool"]) = 3
    /\ LET order == Listed(initial["AddressPool"])
       IN  /\ Migrated(order[1])
           /\ Gone(order[2])
           /\ ~FragmentComplete(order[2])
           /\ FragmentOf(order[2])[1] \in store["IPAddressPool"]
           /\ Untouched(order[3])

\* C21: when writing the backup fails the online migration ends before the
\* loop over the pools starts: no fetch of the loop, no delete and no create
\* is issued, and the store is as it was.
C21_BackupFailureAborts ==
    (\E k \in DOMAIN log : log[k] = PrintEvent("error"))
    => /\ pc = "fatal"
       /\ log = <<ListEvent("ok"), PrintEvent("error")>>
       /\ Len(EventsOf("Delete")) = 0
       /\ Len(EventsOf("Create")) = 0
       /\ store = initial
       /\ backupDir = {}

\* the backup of two or more pools failed and the run ended there
C21_Witness ==
    /\ pc = "fatal"
    /\ Cardinality(initial["AddressPool"]) >= 2
    /\ Len(legacyObjects) >= 2
    /\ log[Len(log)] = PrintEvent("error")
    /\ store = initial

\* C22: no method changes the set it is called on: a step of Convert leaves
\* the legacy set as it was, and a step of Create, Delete or Print leaves the
\* fields of its receiver as they were.
C22_SetsNeverMutated ==
    [][/\ legacyObjects' = legacyObjects
       /\ Method # "LegacyObjects.Convert" => currentObjects' = currentObjects]_vars

\* every method but LegacyObjects.Print leaves its receiver as it was, and
\* LegacyObjects.Print changes nothing but empty Kind and APIVersion
C22_OnlyPrintFillsTypeMeta ==
    [][/\ Method # "LegacyObjects.Print" => legacyObjects' = legacyObjects
       /\ Method # "LegacyObjects.Convert" => currentObjects' = currentObjects
       /\ Len(legacyObjects') = Len(legacyObjects)
       /\ \A k \in DOMAIN legacyObjects :
             /\ [legacyObjects'[k] EXCEPT !.Kind = "", !.APIVersion = ""]
                = [legacyObjects[k] EXCEPT !.Kind = "", !.APIVersion = ""]
             /\ legacyObjects[k].Kind # "" => legacyObjects'[k].Kind = legacyObjects[k].Kind]_vars


(***************************************************************************)
(* C23: an external writer deletes a pool the loop has fetched             *)
(***************************************************************************)
\* the calls of the migrator, without those of the external writer
MigratorLog == SelectSeq(log, LAMBDA e : e.op # "ExternalDelete")

\* the pools the external writer deleted that the migrator deleted afterwards
DeletedUnderneath ==
    {k \in DOMAIN log :
        /\ log[k].op = "ExternalDelete"
        /\ \E j \in DOMAIN log :
              /\ j > k
              /\ log[j].op = "Delete"
              /\ log[j].namespace = log[k].namespace
              /\ log[j].name = log[k].name}

\* what a run without the external writer leaves in a kind of the current schema
Undisturbed(kind) ==
    UNION {{m \in Range(FragmentOf(ap)) : m.Kind = kind} : ap \in initial["AddressPool"]}

Conflicting ==
    {ap \in initial["AddressPool"] :
        Exists(initial, "IPAddressPool", ap.Namespace, ap.Name)}

AlreadyExistsError ==
    Wrapped("online migration failed during current object creation", "AlreadyExists")

OwnersOf(kind, namespace, name) ==
    {ap \in initial["AddressPool"] :
        \E m \in Range(FragmentOf(ap)) :
            m.Kind = kind /\ m.Namespace = namespace /\ m.Name = name}

\* C25: in an online run without an external writer, from a store without
\* current-schema objects, no state holds a legacy pool and an IPAddressPool
\* of the same namespace and name, because every Create of a member of a
\* fragment comes after the Delete of the fragment's legacy pool.
C25_NeverInBothSchemas ==
    initial["IPAddressPool"] = {}
    => /\ \A ap \in store["AddressPool"] :
             ~Exists(store, "IPAddressPool", ap.Namespace, ap.Name)
       /\ \A k \in DOMAIN log :
             log[k].op = "Create"
             => \E ap \in OwnersOf(log[k].kind, log[k].namespace, log[k].name) :
                   \E j \in 1..(k - 1) :
                       log[j] = Event("Delete", "AddressPool", ap, "ok")

\* two pools are migrated, each IPAddressPool in the store without its legacy
\* pool, and a third pool is still in legacy form only
C25_Witness ==
    /\ initial["IPAddressPool"] = {}
    /\ Cardinality(store["IPAddressPool"]) = 2
    /\ Cardinality(store["AddressPool"]) = 1
    /\ \A o \in store["IPAddressPool"] :
          ~Exists(store, "AddressPool", o.Namespace, o.Name)


(***************************************************************************)
(* C26: CurrentObjects.Create posts the IPAddressPools first               *)
(***************************************************************************)
AdvertisementKinds == {"BGPAdvertisement", "L2Advertisement"}

\* the advertisements of the set whose Create has been answered with success
AdvertisementsCreated ==
    {k \in DOMAIN StoreCalls :
        /\ StoreCalls[k].kind \in AdvertisementKinds
        /\ StoreCalls[k].result = "ok"}

\* the member of the set a call is about
MemberOfCall(e) ==
    CHOOSE m \in Range(DeleteOrder(currentObjects[1])) :
        m.Kind = e.kind /\ m.Namespace = e.namespace /\ m.Name = e.name

\* C26: CurrentObjects.Create creates every IPAddressPool of the set before
\* any BGPAdvertisement and any L2Advertisement; in every state of a Create
\* call, aborted or not, each advertisement it has created names an
\* IPAddressPool that the call created before and that is in the store.
C26_PoolsBeforeAdvertisements ==
    Method = "CurrentObjects.Create"
    => LET pools == currentObjects[1].IPAddressPoolList
       IN  /\ \A k \in DOMAIN StoreCalls :
                 StoreCalls[k].kind \in AdvertisementKinds
                 => \A i \in DOMAIN pools :
                       \E j \in 1..(k - 1) :
                           StoreCalls[j] = Event("Create", "IPAddressPool", pools[i], "ok")
           /\ \A k \in AdvertisementsCreated :
                 LET adv == MemberOfCall(StoreCalls[k])
                 IN  /\ adv \in store[adv.Kind]
                     /\ adv.IPAddressPools # <<>>
                     /\ \A n \in DOMAIN adv.IPAddressPools :
                           \E i \in DOMAIN pools :
                              /\ pools[i].Name = adv.IPAddressPools[n]
                              /\ pools[i].Namespace = adv.Namespace
                              /\ pools[i] \in store["IPAddressPool"]
                              /\ \E j \in 1..(k - 1) :
                                    StoreCalls[j] = Event("Create", "IPAddressPool",
                                                          pools[i], "ok")

\* a Create of a set of two pools was aborted by the store after it had created
\* both IPAddressPools and a first advertisement
C26_Witness ==
    /\ Method = "CurrentObjects.Create"
    /\ pc = "returned"
    /\ err # <<>>
    /\ Len(currentObjects[1].IPAddressPoolList) = 2
    /\ Cardinality(AdvertisementsCreated) = 1
    /\ Cardinality(store["IPAddressPool"]) = 2


(***************************************************************************)
(* C27: Convert distributes over concatenation                             *)
(***************************************************************************)
\* two object sets put together list by list
Joined(a, b) ==
    [IPAddressPoolList |-> a.IPAddressPoolList \o b.IPAddressPoolList,
     L2AdvertisementList |-> a.L2AdvertisementList \o b.L2AdvertisementList,
     BGPAdvertisementList |-> a.BGPAdvertisementList \o b.BGPAdvertisementList]

\* the conversions of the pools from position k on, each on its own, joined
RECURSIVE JoinedFrom(_, _)
JoinedFrom(items, k) ==
    IF k > Len(items) THEN EmptyCurrentObjects
    ELSE Joined(Convert(<<items[k]>>).objects[1], JoinedFrom(items, k + 1))

\* C27: for pools of supported protocols, converting each pool on its own (as
\* the online loop does) and joining the results in pool order gives exactly
\* what one Convert of the whole list gives (as the offline path does), and
\* so does converting any two halves of the list.
C27_ConvertDistributes ==
    (pc = "returned" /\ \A k \in DOMAIN legacyObjects : Supported(legacyObjects[k]))
    => /\ err = <<>>
       /\ currentObjects = <<JoinedFrom(legacyObjects, 1)>>
       /\ \A n \in 0..Len(legacyObjects) :
             currentObjects
             = <<Joined(Convert(SubSeq(legacyObjects, 1, n)).objects[1],
                        Convert(SubSeq(legacyObjects, n + 1, Len(legacyObjects))).objects[1])>>

\* a list of a layer2 pool and a BGP pool with an advertisement was converted
C27_Witness ==
    /\ pc = "returned"
    /\ err = <<>>
    /\ Len(legacyObjects) = 2
    /\ legacyObjects[1].Name # legacyObjects[2].Name
    /\ legacyObjects[1].Protocol = ProtocolBGP
    /\ legacyObjects[2].Protocol = ProtocolLayer2
    /\ Len(currentObjects[1].BGPAdvertisementList) >= 1
    /\ Len(currentObjects[1].L2AdvertisementList) = 1


(***************************************************************************)
(* C28: no two converted objects of a kind under one key                   *)
(***************************************************************************)
\* C28: for pools of pairwise distinct namespace and name, Convert never
\* gives two objects of the same kind with the same namespace and name, so
\* that the Create of a converted set cannot collide with another member of
\* the set.
C28_ConvertedKeysDistinct ==
    (/\ pc = "returned"
     /\ err = <<>>
     /\ \A k \in DOMAIN legacyObjects : UniqueKey(legacyObjects, k))
    => LET members == CreateOrder(currentObjects[1])
       IN  /\ \A k \in DOMAIN currentObjects[1].IPAddressPoolList :
                 UniqueKey(currentObjects[1].IPAddressPoolList, k)
           /\ \A k \in DOMAIN currentObjects[1].BGPAdvertisementList :
                 UniqueKey(currentObjects[1].BGPAdvertisementList, k)
           /\ \A k \in DOMAIN currentObjects[1].L2AdvertisementList :
                 UniqueKey(currentObjects[1].L2AdvertisementList, k)
           /\ \A j, k \in DOMAIN members :
                 (/\ members[j].Kind = members[k].Kind
                  /\ members[j].Namespace = members[k].Namespace
                  /\ members[j].Name = members[k].Name) => j = k

\* two BGP pools of different names were converted, one of them with two
\* advertisements
C28_Witness ==
    /\ pc = "returned"
    /\ err = <<>>
    /\ Len(legacyObjects) = 2
    /\ legacyObjects[1].Name # legacyObjects[2].Name
    /\ \A k \in DOMAIN legacyObjects : legacyObjects[k].Protocol = ProtocolBGP
    /\ Len(legacyObjects[1].BGPAdvertisements) = 2
    /\ Len(currentObjects[1].BGPAdvertisementList) >= 3


(***************************************************************************)
(* C29: the backup of a second run                                         *)
(***************************************************************************)
\* a run after the first one is in progress or has ended
SecondRun == \E k \in DOMAIN log : log[k].op = "Run"

\* the format of the run before the current one
PreviousFormat ==
    log[CHOOSE k \in DOMAIN log :
           log[k].op = "Run" /\ \A j \in DOMAIN log : log[j].op = "Run" => j <= k].result

\* the backup step of the current run has just written its file
BackedUp == pc = "fetch" /\ Len(log) > 0 /\ log[Len(log)] = PrintEvent("ok")

C30_OfflineLeavesStore ==
    /\ store = initial
    /\ \A k \in DOMAIN log : log[k].op \notin {"Create", "Delete"}

\* an offline migration from a directory has written its files while the
\* store holds a legacy pool
C30_Witness ==
    /\ pc = "done"
    /\ inDir # <<>>
    /\ store["AddressPool"] # {}
    /\ currentObjects # <<>>
    /\ Len(currentObjects[1].IPAddressPoolList) >= 1
    /\ outDir # <<>>
    /\ \E f \in outDir[1] :
          f.name = CurrentFileName(currentObjects[1].IPAddressPoolList, toJSON)

====
